---- MODULE Spec2Model ----
(***************************************************************************)
(* xclient-rs (src/src/main.rs): an X11 client.  After the handshake, main *)
(* spawns a reader task that splits the inbound byte stream into error,    *)
(* reply and event frames, and keeps issuing requests itself (the writer). *)
(* Replies are matched to requests through an mpsc channel of capacity 1   *)
(* carrying (Opcodes, oneshot::Sender<Bytes>) entries.                      *)
(*                                                                         *)
(* The runtime is tokio's current_thread flavour: the two tasks interleave *)
(* only at .await points, so every action below is the code between two    *)
(* await points of one task.                                               *)
(*                                                                         *)
(* Spec      the program as main runs it, against a protocol-conforming    *)
(*           server (replies answer written requests in order; errors and  *)
(*           events arrive at any time).                                   *)
(* SpecDemux the reader task alone, against any issuer that registers      *)
(*           entries of any Opcodes kind and any peer sending frames.      *)
(* SpecFrames the reader task's classification and decoding of frames,     *)
(*           against a peer sending any first byte and any error code,     *)
(*           with no entry registered.                                     *)
(***************************************************************************)
EXTENDS Integers, Sequences, FiniteSets, TLC

(***************************************************************************)
(* Bounds of the model.                                                    *)
(***************************************************************************)
\* errors and events the server sends on its own in Spec
MaxAsync == 1
\* iterations of main's configure_window loop (100 in the source, line 1141)
ConfigureRounds == 1
\* frames the peer sends in SpecDemux
MaxDemuxFrames == 2
\* frames the peer sends in SpecFrames
MaxPlainFrames == 2
\* entries the issuer registers in SpecDemux
MaxIssues == 1
\* socket reads and writes that return Err in SpecIo
MaxFaults == 1
\* calls of IdGenerator::next in SpecIds
MaxNextCalls == 9
\* calls of request encoders in one behaviour
MaxEncodes == 2
\* calls of pad in one behaviour of SpecPad, and the lengths it is called with
MaxPadCalls == 1
MaxPadLen == 127
\* frames the server sends in SpecEvents
MaxEventFrames == 1

(***************************************************************************)
(* enum Opcodes, enum ErrorCode, enum Events (the values the model uses).  *)
(***************************************************************************)
CreateWindow == 1
GetWindowAttributes == 3
DestroyWindow == 4
MapWindow == 8
UnmapWindow == 10
ConfigureWindow == 12
OpenFont == 45
CloseFont == 46
ListFonts == 49
CreateGC == 55
FreeGC == 60
ImageText8 == 76
QueryExtension == 98
ListExtensions == 99

ErrRequest == 1
ErrValue == 2
ErrWindow == 3
ErrMatch == 8
ErrIDChoice == 14
ErrLength == 16
ErrImplementation == 17

EvKeyPress == 2
EvKeyRelease == 3
EvButtonPress == 4
EvButtonRelease == 5
EvMotionNotify == 6
EvEnterNotify == 7
EvLeaveNotify == 8
EvExpose == 12
EvMapRequest == 20
EvSelectionRequest == 30
EvMappingNotify == 34

\* ErrorCode::from_u8: Some for the 17 variants 1..=17
ErrorCodeFromU8(b) == b \in ErrRequest..ErrImplementation

\* Events::from_u8: the enum lists 2..=20 and 30..=34 ("// ..." between them)
EventsFromU8(b) == b \in (EvKeyPress..EvMapRequest) \cup (EvSelectionRequest..EvMappingNotify)

(***************************************************************************)
(* Wire primitives: bytes::Buf / BufMut on little-endian integers.         *)
(***************************************************************************)
Take(s, n) == SubSeq(s, 1, n)
Drop(s, n) == SubSeq(s, n + 1, Len(s))
Zeros(n) == [i \in 1..n |-> 0]

\* put_u16_le / put_u32_le
PutU16LE(v) == <<v % 256, (v \div 256) % 256>>
PutU32LE(v) == <<v % 256, (v \div 256) % 256, (v \div 65536) % 256, (v \div 16777216) % 256>>

\* get_u16_le / get_u32_le on the bytes of s starting at index i
GetU16LE(s, i) == s[i] + 256 * s[i + 1]
\* (a variant: the same four bytes, most significant first)
GetU32BE(s, i) == s[i] * 16777216 + s[i + 1] * 65536 + s[i + 2] * 256 + s[i + 3]
GetU32LE(s, i) == s[i] + 256 * s[i + 1] + 65536 * s[i + 2] + 16777216 * s[i + 3]

\* (a variant: without the outer modulo)
pad_NoOuterMod(len) == 4 - (len % 4)
\* pad(E) = (4 - (E mod 4)) mod 4
pad(len) == (4 - (len % 4)) % 4

\* bitwise operators on naturals
RECURSIVE BitAnd(_, _)
BitAnd(a, b) ==
    IF a = 0 \/ b = 0 THEN 0
    ELSE (a % 2) * (b % 2) + 2 * BitAnd(a \div 2, b \div 2)
RECURSIVE BitOr(_, _)
BitOr(a, b) ==
    IF a = 0 THEN b ELSE IF b = 0 THEN a
    ELSE (IF a % 2 = 1 \/ b % 2 = 1 THEN 1 ELSE 0) + 2 * BitOr(a \div 2, b \div 2)

\* u32: a 32-bit word as its two 16-bit halves, so that every value up to
\* 0xFFFFFFFF and every carry out of bit 31 is exact
Half == 65536
Word(hi, lo) == [hi |-> hi, lo |-> lo]
WAnd(a, b) == Word(BitAnd(a.hi, b.hi), BitAnd(a.lo, b.lo))
WOr(a, b) == Word(BitOr(a.hi, b.hi), BitOr(a.lo, b.lo))
WNot(a) == Word(Half - 1 - a.hi, Half - 1 - a.lo)
\* a + b on u32: the sum modulo 2^32, and whether it overflows
WAdd(a, b) == Word((a.hi + b.hi + (a.lo + b.lo) \div Half) % Half, (a.lo + b.lo) % Half)
WAddOverflows(a, b) == a.hi + b.hi + (a.lo + b.lo) \div Half >= Half
WLess(a, b) == a.hi < b.hi \/ (a.hi = b.hi /\ a.lo < b.lo)

RECURSIVE Flatten(_)
Flatten(ss) == IF ss = <<>> THEN <<>> ELSE Head(ss) \o Flatten(Tail(ss))

(***************************************************************************)
(* Frames as the server lays them out (the layouts the reader and the      *)
(* writer decode).                                                         *)
(***************************************************************************)
\* 0, code, sequence number, bad value, minor opcode, major opcode, 21 unused
ErrorFrame(code, seq, value, major) ==
    <<0, code>> \o PutU16LE(seq) \o PutU32LE(value) \o PutU16LE(0) \o <<major>> \o Zeros(21)

\* any 32-byte frame with the given first byte: code, detail, sequence number, 28 more
EventFrame(first, detail, seq) == <<first, detail>> \o PutU16LE(seq) \o Zeros(28)

\* GetWindowAttributes reply: 32 bytes and 3 more words
ReplyGetWindowAttributes(seq) ==
    <<1, 2>> \o PutU16LE(seq) \o PutU32LE(3) \o Zeros(36)

\* QueryExtension reply: present, major-opcode, first-event, first-error
ReplyQueryExtension(seq, present, major) ==
    <<1, 0>> \o PutU16LE(seq) \o PutU32LE(0) \o <<present, major, 64, 128>> \o Zeros(20)

\* LISTofSTR: each name as a length byte and its bytes
StrList(names) == Flatten([i \in 1..Len(names) |-> <<Len(names[i])>> \o names[i]])

\* ListFonts reply: number of names in bytes 8..9, names after the 32 bytes
ReplyListFonts(seq, names) ==
    LET body == StrList(names)
    IN <<1, 0>> \o PutU16LE(seq) \o PutU32LE((Len(body) + pad(Len(body))) \div 4)
         \o PutU16LE(Len(names)) \o Zeros(22) \o body \o Zeros(pad(Len(body)))

\* ListExtensions reply: number of names in byte 1, names after the 32 bytes
ReplyListExtensions(seq, names) ==
    LET body == StrList(names)
    IN <<1, Len(names)>> \o PutU16LE(seq) \o PutU32LE((Len(body) + pad(Len(body))) \div 4)
         \o Zeros(24) \o body \o Zeros(pad(Len(body)))

(***************************************************************************)
(* The reader task's decoders.  Each takes the buffer b as it stands after *)
(* the frame's first byte was taken (get_u8 at line 942) and returns what  *)
(* the code does with it: the bytes it takes (used), whether it panics.    *)
(***************************************************************************)
\* error branch, lines 946..967
DecodeError(b) ==
    LET raw_error_code == b[1]
        known == [panic |-> FALSE, code |-> raw_error_code,
                  sequence_number |-> GetU16LE(b, 2),
                  minor_opcode |-> GetU16LE(b, 8), major_opcode |-> b[10],
                  used |-> 1 + 2 + 4 + 2 + 1 + 21]
    IN  IF ~ErrorCodeFromU8(raw_error_code)
        THEN \* expect("valid error code")
             [panic |-> TRUE, code |-> raw_error_code, sequence_number |-> 0,
              has_bad_resource_id |-> FALSE, bad_resource_id |-> 0,
              minor_opcode |-> 0, major_opcode |-> 0, used |-> 1]
        ELSE IF raw_error_code \in {ErrIDChoice, ErrWindow}
        THEN known @@ [has_bad_resource_id |-> TRUE, bad_resource_id |-> GetU32LE(b, 4)]
        ELSE IF raw_error_code \in {ErrRequest, ErrMatch, ErrLength}
        THEN known @@ [has_bad_resource_id |-> FALSE, bad_resource_id |-> 0]
        ELSE \* unimplemented!("error code not implemented")
             [panic |-> TRUE, code |-> raw_error_code, sequence_number |-> GetU16LE(b, 2),
              has_bad_resource_id |-> FALSE, bad_resource_id |-> 0,
              minor_opcode |-> 0, major_opcode |-> 0, used |-> 1 + 2]

\* (a variant: the EnterNotify / LeaveNotify arm leaves the last byte)
decode_event_EnterShort(event, b) ==
    IF Len(b) < 31 THEN [panic |-> FALSE, used |-> 0]
    ELSE IF event \in {EvKeyPress, EvKeyRelease} THEN [panic |-> FALSE, used |-> 1 + 2 + 4 + 24]
    ELSE IF event \in {EvButtonPress, EvButtonRelease} THEN [panic |-> FALSE, used |-> 1 + 2 + 4 + 24]
    ELSE IF event \in {EvEnterNotify, EvLeaveNotify}
         THEN [panic |-> FALSE, used |-> 1 + 2 + 4 + 4 + 4 + 4 + 2 + 2 + 2 + 2 + 2 + 1]
    ELSE IF event = EvMappingNotify THEN [panic |-> FALSE, used |-> 1 + 2 + 1 + 1 + 1 + 25]
    ELSE IF event = EvExpose THEN [panic |-> FALSE, used |-> 1 + 2 + 4 + 2 + 2 + 2 + 2 + 16]
    ELSE [panic |-> TRUE, used |-> 0]
\* decode_event, lines 546..621
decode_event(event, b) ==
    IF Len(b) < 31 THEN [panic |-> FALSE, used |-> 0]
    ELSE IF event \in {EvKeyPress, EvKeyRelease} THEN [panic |-> FALSE, used |-> 1 + 2 + 4 + 24]
    ELSE IF event \in {EvButtonPress, EvButtonRelease} THEN [panic |-> FALSE, used |-> 1 + 2 + 4 + 24]
    ELSE IF event \in {EvEnterNotify, EvLeaveNotify}
         THEN [panic |-> FALSE, used |-> 1 + 2 + 4 + 4 + 4 + 4 + 2 + 2 + 2 + 2 + 2 + 1 + 1]
    ELSE IF event = EvMappingNotify THEN [panic |-> FALSE, used |-> 1 + 2 + 1 + 1 + 1 + 25]
    ELSE IF event = EvExpose THEN [panic |-> FALSE, used |-> 1 + 2 + 4 + 2 + 2 + 2 + 2 + 16]
    ELSE \* panic!("unable to decode event yet")
         [panic |-> TRUE, used |-> 0]

\* What a reply branch does once it need not wait: panic, or send payload (or
\* drop the handle, send = FALSE) and leave rest in the buffer.
Waits == [wait |-> TRUE, panic |-> FALSE, send |-> FALSE, payload |-> <<>>, rest |-> <<>>]
Panics == [wait |-> FALSE, panic |-> TRUE, send |-> FALSE, payload |-> <<>>, rest |-> <<>>]
Sends(b, n) ==
    \* one_tx.send(response_buf.split_to(n).freeze()); split_to panics beyond the end
    IF n > Len(b) THEN Panics
    ELSE [wait |-> FALSE, panic |-> FALSE, send |-> TRUE, payload |-> Take(b, n), rest |-> Drop(b, n)]

\* Opcodes::GetWindowAttributes, lines 975..980
\* (a variant: no loop at line 976, the send takes what is there)
HandleGetWindowAttributes_NoWait(b) == Sends(b, IF Len(b) < 43 THEN Len(b) ELSE 43)
\* (a variant: split_to(44))
HandleGetWindowAttributes_TakesAll(b) == IF Len(b) < 44 THEN Waits ELSE Sends(b, 44)
HandleGetWindowAttributes(b) ==
    IF Len(b) < 44 THEN Waits ELSE Sends(b, 43)

\* Opcodes::QueryExtension, lines 1007..1009
HandleQueryExtension(b) == Sends(b, 31)

\* Opcodes::ListFonts, lines 1011..1013: the header, then lines 1014..1021
ListFontsHeader(b) == [response_length |-> GetU32LE(b, 4), used |-> 1 + 2 + 4]
HandleListFonts(b, response_length) ==
    IF Len(b) < response_length * 4 + 24 THEN Waits ELSE Sends(b, response_length * 4 + 24)

\* Opcodes::ListExtensions, lines 982..988: the header
ListExtensionsHeader(b) ==
    [number_of_strings |-> b[1], response_length |-> GetU32LE(b, 4), used |-> 1 + 2 + 4 + 24]

\* lines 995..1004: the loop over the strings; sum_bytes = -1 stands for a panic
\* (get_u8 on an empty buffer, get(..str_len).unwrap(), from_ascii(..).unwrap())
RECURSIVE ListExtensionsStrings(_, _, _)
ListExtensionsStrings(b, strings_left, sum_bytes) ==
    IF strings_left = 0 THEN [rest |-> b, sum_bytes |-> sum_bytes]
    ELSE IF b = <<>> THEN [rest |-> b, sum_bytes |-> -1]
    ELSE LET str_len == b[1]
         IN IF Len(b) - 1 < str_len \/ \E i \in 2..(1 + str_len) : b[i] > 127
            THEN [rest |-> b, sum_bytes |-> -1]
            ELSE ListExtensionsStrings(Drop(b, 1 + str_len), strings_left - 1,
                                       sum_bytes + 1 + str_len)

\* lines 989..1005
HandleListExtensions(b, number_of_strings, response_length) ==
    IF Len(b) < response_length * 4 THEN Waits
    ELSE LET r == ListExtensionsStrings(b, number_of_strings, 0)
         IN IF r.sum_bytes < 0 THEN Panics ELSE Sends(r.rest, pad(r.sum_bytes))

(***************************************************************************)
(* State.                                                                  *)
(***************************************************************************)
VARIABLES
    wire,          \* inbound socket: bytes the server sent that no read_buf returned yet
    response_buf,  \* the reader task's BytesMut (line 932)
    readerPc,      \* the await the reader task stands at (or how it ended)
    cur,           \* the reader's locals across an await: opcode, one_tx, lengths
    chan,          \* mpsc::channel(1): the entries sent and not yet received
    oneshots,      \* every oneshot channel created, by creation order: its state and the
                   \* bytes sent; history: seen = frames classified when it was
                   \* created, at = stream offset of the reply it was received for,
                   \* end = stream offset where that reply's branch ended
    writerPc,      \* main: index into MainProgram and the await it stands at
    written,       \* outbound socket: the opcodes of the requests written
    answered,      \* server: reply-expecting requests it has answered
    asyncSent,     \* server: errors and events it sent on its own
    frames,        \* history: the frames the server sent, with their place in the stream
    consumed,      \* history: bytes the reader has taken out of response_buf
    processed,     \* history: the frames the reader classified, in its order
    faults,        \* history: the socket reads and writes that returned Err
    id_generator,  \* an IdGenerator: last, max, base, inc (built = FALSE: new panicked)
    ids,           \* history: the calls of IdGenerator::next, with self.last before
                   \* and after and the Option returned
    handshake,     \* main before the reader task is spawned (lines 757..922): pc, the
                   \* await it stands at or how it ended; wire, the server's bytes no
                   \* read returned yet; response, main's BytesMut; result, what was
                   \* decoded; history: shape, the response the server sends
    encoder        \* the request encoders (lines 266..544, 677..726): buf, the BufMut
                   \* they append to; pc; history: calls, one record per call with
                   \* its arguments, where its bytes start, how many they are and
                   \* what it returned

\* the state beside the session of reader task, writer and server
ext == <<faults, id_generator, ids, handshake, encoder>>

vars == <<wire, response_buf, readerPc, cur, chan, oneshots, writerPc, written,
          answered, asyncSent, frames, consumed, processed, ext>>

NoCur == [opcode |-> 0, tx |-> 0, number_of_strings |-> 0, response_length |-> 0]

\* response_buf.remaining() >= 32 at line 941, then the class of first_byte
IsErrorByte(first_byte) == first_byte = 0
\* (a variant: first_byte != 0)
IsReplyByte_NotZero(first_byte) == first_byte >= 1
IsReplyByte(first_byte) == first_byte = 1

\* The reader task has ended: its rx, read_stream and any one_tx it held are dropped.
ReaderGone == readerPc \in {"panicked", "stopped", "failed"}

\* Dropping the receiver closes the channel and drops the entries still in it;
\* a dropped oneshot::Sender makes the awaiting receiver fail.
DropSenders(os, txs) ==
    [h \in DOMAIN os |-> IF h \in txs /\ os[h].state = "open"
                         THEN [os[h] EXCEPT !.state = "dropped"] ELSE os[h]]
ChanTxs == {chan[i].tx : i \in DOMAIN chan}
HeldTxs == IF cur.tx = 0 THEN {} ELSE {cur.tx}

\* one_tx.send(payload): the oneshot is fulfilled; consumedAfter is the reader's
\* position in the stream when the branch ends
Fulfil(os, tx, payload, consumedAfter) ==
    [os EXCEPT ![tx].state = "sent", ![tx].bytes = payload,
               ![tx].sends = @ + 1, ![tx].end = consumedAfter]
\* the branch ends with one_tx dropped unsent
Unsent(os, tx, consumedAfter) ==
    [os EXCEPT ![tx].state = "dropped", ![tx].end = consumedAfter]

Classified(class, first_byte, d) ==
    [at |-> consumed, first |-> first_byte, class |-> class, panic |-> d.panic,
     used |-> 1 + d.used, code |-> d.code, has_bad_resource_id |-> d.has_bad_resource_id,
     bad_resource_id |-> d.bad_resource_id]
NoDecode(panic, used) ==
    [panic |-> panic, used |-> used, code |-> 0, has_bad_resource_id |-> FALSE,
     bad_resource_id |-> 0]

SessionStarts ==
    /\ wire = <<>>
    /\ response_buf = <<>>
    /\ readerPc = "frames"
    /\ cur = NoCur
    /\ chan = <<>>
    /\ oneshots = <<>>
    /\ writerPc = [i |-> 1, ph |-> "write"]
    /\ written = <<>>
    /\ answered = 0
    /\ asyncSent = 0
    /\ frames = <<>>
    /\ consumed = 0
    /\ processed = <<>>

\* what the handshake has decoded: nothing yet
NoResult ==
    [panic |-> FALSE, started |-> FALSE, used |-> 0, buffered |-> 0, number_formats |-> 0,
     formats |-> 0, number_screens_roots |-> 0, screen_roots |-> <<>>,
     resource_id_base |-> 0, resource_id_mask |-> 0]
\* the handshake is over (or not under study)
NoHandshake ==
    [pc |-> "idle", shape |-> <<>>, wire |-> <<>>, response |-> <<>>, status_code |-> 0,
     additional_data_len |-> 0, result |-> NoResult]

\* no encoder under study
NoEncoder == [pc |-> "idle", buf |-> <<>>, calls |-> <<>>]

\* no IdGenerator under study
NoIdGenerator ==
    [built |-> FALSE, last |-> Word(0, 0), max |-> Word(0, 0), base |-> Word(0, 0),
     inc |-> Word(0, 0)]

Init ==
    /\ SessionStarts
    /\ faults = <<>>
    /\ id_generator = NoIdGenerator
    /\ ids = <<>>
    /\ handshake = NoHandshake
    /\ encoder = NoEncoder

(***************************************************************************)
(* The reader task, lines 931..1039.                                       *)
(***************************************************************************)
\* The loops that read: line 940 (the while at 941 has nothing to do), 976, 989, 1014.
ReaderNeedsBytes ==
    \/ readerPc = "frames" /\ Len(response_buf) < 32
    \/ readerPc = "gwa" /\ HandleGetWindowAttributes(response_buf).wait
    \/ readerPc = "le" /\ HandleListExtensions(response_buf, cur.number_of_strings,
                                               cur.response_length).wait
    \/ readerPc = "lf" /\ HandleListFonts(response_buf, cur.response_length).wait

\* read_stream.read_buf(&mut response_buf).await returns some of the bytes available
ReaderRead ==
    /\ ReaderNeedsBytes
    /\ wire # <<>>
    /\ \E n \in 1..Len(wire) :
         /\ response_buf' = response_buf \o Take(wire, n)
         /\ wire' = Drop(wire, n)
    /\ UNCHANGED <<readerPc, cur, chan, oneshots, writerPc, written, answered,
                   asyncSent, frames, consumed, processed>>
    /\ UNCHANGED ext

\* The reader task panics: tokio ends the task and drops what it owned.
PanicEffects ==
    /\ readerPc' = "panicked"
    /\ cur' = NoCur
    /\ chan' = <<>>
    /\ oneshots' = DropSenders(oneshots, ChanTxs \cup HeldTxs)

ReaderPanics(class, first_byte, d) ==
    /\ PanicEffects
    /\ processed' = Append(processed, Classified(class, first_byte, d))
    /\ consumed' = consumed + 1 + d.used
    /\ response_buf' = Drop(response_buf, 1 + d.used)

\* first_byte == 0, lines 944..968
ReaderError ==
    /\ readerPc = "frames"
    /\ Len(response_buf) >= 32
    /\ IsErrorByte(response_buf[1])
    /\ LET d == DecodeError(Tail(response_buf))
       IN IF d.panic THEN ReaderPanics("error", response_buf[1], d)
          ELSE /\ response_buf' = Drop(response_buf, 1 + d.used)
               /\ consumed' = consumed + 1 + d.used
               /\ processed' = Append(processed, Classified("error", response_buf[1], d))
               /\ UNCHANGED <<readerPc, cur, chan, oneshots>>
    /\ UNCHANGED <<wire, writerPc, written, answered, asyncSent, frames>>
    /\ UNCHANGED ext

\* first_byte == 1, lines 969..971: up to rx.recv().await
ReaderReply ==
    /\ readerPc = "frames"
    /\ Len(response_buf) >= 32
    /\ ~IsErrorByte(response_buf[1])
    /\ IsReplyByte(response_buf[1])
    /\ response_buf' = Tail(response_buf)
    /\ consumed' = consumed + 1
    /\ processed' = Append(processed, Classified("reply", response_buf[1], NoDecode(FALSE, 0)))
    /\ readerPc' = "recv"
    /\ UNCHANGED <<wire, cur, chan, oneshots, writerPc, written, answered, asyncSent, frames>>
    /\ UNCHANGED ext

\* Events::from_u8(first_byte) is Some, lines 1029..1031
ReaderEvent ==
    /\ readerPc = "frames"
    /\ Len(response_buf) >= 32
    /\ ~IsErrorByte(response_buf[1])
    /\ ~IsReplyByte(response_buf[1])
    /\ EventsFromU8(response_buf[1])
    /\ LET e == decode_event(response_buf[1], Tail(response_buf))
           d == NoDecode(e.panic, e.used)
       IN IF d.panic THEN ReaderPanics("event", response_buf[1], d)
          ELSE /\ response_buf' = Drop(response_buf, 1 + d.used)
               /\ consumed' = consumed + 1 + d.used
               /\ processed' = Append(processed, Classified("event", response_buf[1], d))
               /\ UNCHANGED <<readerPc, cur, chan, oneshots>>
    /\ UNCHANGED <<wire, writerPc, written, answered, asyncSent, frames>>
    /\ UNCHANGED ext

\* panic!("unknown first byte"), lines 1032..1034
ReaderUnknown ==
    /\ readerPc = "frames"
    /\ Len(response_buf) >= 32
    /\ ~IsErrorByte(response_buf[1])
    /\ ~IsReplyByte(response_buf[1])
    /\ ~EventsFromU8(response_buf[1])
    /\ ReaderPanics("unknown", response_buf[1], NoDecode(TRUE, 0))
    /\ UNCHANGED <<wire, writerPc, written, answered, asyncSent, frames>>
    /\ UNCHANGED ext

\* rx.recv().await, line 971: the oldest entry; None once every Sender is gone
\* and the channel is empty; pending otherwise
\* (a variant: try_recv, an empty channel reads as None)
RecvOutcome_NoWait(c, senders_alive) == IF c # <<>> THEN "entry" ELSE "none"
RecvOutcome(c, senders_alive) ==
    IF c # <<>> THEN "entry" ELSE IF senders_alive THEN "wait" ELSE "none"

\* the opcodes the match at line 974 has an arm for; any other panics
HandledOpcodes ==
    {GetWindowAttributes, ListExtensions, QueryExtension, ListFonts, OpenFont, ImageText8}

\* tx lives in main until main returns
SendersAlive == writerPc.ph \notin {"done", "failed"}

\* A reply branch that does not wait ends: b is the buffer it leaves
ReplyBranchEnds(tx, r) ==
    IF r.panic
    THEN /\ readerPc' = "panicked"
         /\ cur' = NoCur
         /\ chan' = <<>>
         /\ oneshots' = DropSenders(oneshots, ChanTxs \cup {tx})
         /\ UNCHANGED <<response_buf, consumed>>
    ELSE /\ readerPc' = "frames"
         /\ cur' = NoCur
         /\ UNCHANGED chan
         /\ response_buf' = r.rest
         /\ consumed' = consumed + (Len(response_buf) - Len(r.rest))
         /\ oneshots' = IF r.send
                        THEN Fulfil(oneshots, tx, r.payload, consumed')
                        ELSE Unsent(oneshots, tx, consumed')

\* lines 971..1028 up to the first await of the entry's branch
ReaderRecv ==
    /\ readerPc = "recv"
    /\ RecvOutcome(chan, SendersAlive) # "wait"
    /\ IF RecvOutcome(chan, SendersAlive) = "none"
       THEN \* if let Some(..) fails: back to the while at line 941
            /\ readerPc' = "frames"
            /\ UNCHANGED <<response_buf, cur, chan, oneshots, consumed>>
       ELSE LET opcode == Head(chan).opcode
                tx == Head(chan).tx
                os == [oneshots EXCEPT ![tx].at = consumed - 1]
            IN /\ chan' = IF opcode \in HandledOpcodes THEN Tail(chan) ELSE <<>>
               /\ IF opcode = GetWindowAttributes
                  THEN /\ readerPc' = "gwa"
                       /\ cur' = [NoCur EXCEPT !.opcode = opcode, !.tx = tx]
                       /\ oneshots' = os
                       /\ UNCHANGED <<response_buf, consumed>>
                  ELSE IF opcode = ListExtensions
                  THEN LET h == ListExtensionsHeader(response_buf)
                       IN /\ readerPc' = "le"
                          /\ cur' = [opcode |-> opcode, tx |-> tx,
                                     number_of_strings |-> h.number_of_strings,
                                     response_length |-> h.response_length]
                          /\ oneshots' = os
                          /\ response_buf' = Drop(response_buf, h.used)
                          /\ consumed' = consumed + h.used
                  ELSE IF opcode = ListFonts
                  THEN LET h == ListFontsHeader(response_buf)
                       IN /\ readerPc' = "lf"
                          /\ cur' = [NoCur EXCEPT !.opcode = opcode, !.tx = tx,
                                                  !.response_length = h.response_length]
                          /\ oneshots' = os
                          /\ response_buf' = Drop(response_buf, h.used)
                          /\ consumed' = consumed + h.used
                  ELSE LET r == IF opcode = QueryExtension
                                THEN HandleQueryExtension(response_buf)
                                ELSE IF opcode \in {OpenFont, ImageText8}
                                THEN \* eprintln!("HERE"); one_tx goes out of scope
                                     [wait |-> FALSE, panic |-> FALSE, send |-> FALSE,
                                      payload |-> <<>>, rest |-> response_buf]
                                ELSE \* panic!("unknown opcode")
                                     Panics
                       IN /\ response_buf' = IF r.panic THEN response_buf ELSE r.rest
                          /\ consumed' = consumed + (Len(response_buf) - Len(response_buf'))
                          /\ cur' = NoCur
                          /\ readerPc' = IF r.panic THEN "panicked" ELSE "frames"
                          /\ oneshots' =
                               IF r.panic THEN DropSenders(os, {chan[i].tx : i \in DOMAIN chan})
                               ELSE IF r.send THEN Fulfil(os, tx, r.payload, consumed')
                               ELSE Unsent(os, tx, consumed')
    /\ UNCHANGED <<wire, writerPc, written, answered, asyncSent, frames, processed>>
    /\ UNCHANGED ext

\* lines 976..980 once 44 bytes remain
ReaderGetWindowAttributes ==
    /\ readerPc = "gwa"
    /\ ~HandleGetWindowAttributes(response_buf).wait
    /\ ReplyBranchEnds(cur.tx, HandleGetWindowAttributes(response_buf))
    /\ UNCHANGED <<wire, writerPc, written, answered, asyncSent, frames, processed>>
    /\ UNCHANGED ext

\* lines 989..1005 once response_length * 4 bytes remain
ReaderListExtensions ==
    /\ readerPc = "le"
    /\ LET r == HandleListExtensions(response_buf, cur.number_of_strings, cur.response_length)
       IN /\ ~r.wait
          /\ ReplyBranchEnds(cur.tx, r)
    /\ UNCHANGED <<wire, writerPc, written, answered, asyncSent, frames, processed>>
    /\ UNCHANGED ext

\* lines 1014..1021 once response_length * 4 + 24 bytes remain
ReaderListFonts ==
    /\ readerPc = "lf"
    /\ LET r == HandleListFonts(response_buf, cur.response_length)
       IN /\ ~r.wait
          /\ ReplyBranchEnds(cur.tx, r)
    /\ UNCHANGED <<wire, writerPc, written, answered, asyncSent, frames, processed>>
    /\ UNCHANGED ext

Reader ==
    \/ ReaderRead
    \/ ReaderError
    \/ ReaderReply
    \/ ReaderEvent
    \/ ReaderUnknown
    \/ ReaderRecv
    \/ ReaderGetWindowAttributes
    \/ ReaderListExtensions
    \/ ReaderListFonts

(***************************************************************************)
(* The writer: main from line 1041 on.                                     *)
(***************************************************************************)
\* the requests main issues, in order (lines 1045..1164)
MainProgram ==
    <<CreateWindow, MapWindow, GetWindowAttributes, ListFonts, OpenFont, CreateGC,
      ImageText8, ListExtensions, QueryExtension, QueryExtension>>
    \o [k \in 1..ConfigureRounds |-> ConfigureWindow]
    \o <<FreeGC, CloseFont, UnmapWindow, DestroyWindow>>

\* the requests main opens a oneshot channel for (lines 1052, 1059, 1100, 1106, 1126)
AwaitsReply(opcode) ==
    opcode \in {GetWindowAttributes, ListFonts, ListExtensions, QueryExtension}

\* the awaits of one reply-expecting request, in main's order:
\* tx.send(..).await?, stream.write_all_buf(..).await?, one_rx.await?
\* (a variant: the request goes out before its entry is registered)
IssueOrder_WriteFirst == <<"write", "send", "await">>
IssueOrder == <<"send", "write", "await">>

FirstPhase(opcode) == IF AwaitsReply(opcode) THEN IssueOrder[1] ELSE "write"

\* (a variant: main does not await the reply)
WriterAdvance_NoAwait ==
    LET opcode == MainProgram[writerPc.i]
        k == CHOOSE j \in DOMAIN IssueOrder : IssueOrder[j] = writerPc.ph
    IN IF AwaitsReply(opcode) /\ k < Len(IssueOrder) - 1
       THEN [i |-> writerPc.i, ph |-> IssueOrder[k + 1]]
       ELSE IF writerPc.i < Len(MainProgram)
       THEN [i |-> writerPc.i + 1, ph |-> FirstPhase(MainProgram[writerPc.i + 1])]
       ELSE [i |-> writerPc.i, ph |-> "exit"]
\* main goes on past the await it stands at
WriterAdvance ==
    LET opcode == MainProgram[writerPc.i]
        k == CHOOSE j \in DOMAIN IssueOrder : IssueOrder[j] = writerPc.ph
    IN IF AwaitsReply(opcode) /\ k < Len(IssueOrder)
       THEN [i |-> writerPc.i, ph |-> IssueOrder[k + 1]]
       ELSE IF writerPc.i < Len(MainProgram)
       THEN [i |-> writerPc.i + 1, ph |-> FirstPhase(MainProgram[writerPc.i + 1])]
       ELSE [i |-> writerPc.i, ph |-> "exit"]

\* main returns (Ok or Err): the runtime is dropped and the reader task with it
MainReturns(ph) ==
    /\ writerPc' = [writerPc EXCEPT !.ph = ph]
    /\ readerPc' = IF readerPc \in {"panicked", "failed"} THEN readerPc ELSE "stopped"
    /\ cur' = NoCur
    /\ chan' = <<>>
    /\ oneshots' = DropSenders(oneshots, ChanTxs \cup HeldTxs)

NewOneshot(opcode) ==
    [opcode |-> opcode, state |-> "open", bytes |-> <<>>, sends |-> 0, at |-> -1, end |-> -1,
     seen |-> Len(processed)]

\* oneshot::channel(); tx.send((opcode, one_tx)).await?
WriterSend ==
    /\ writerPc.ph = "send"
    /\ IF ReaderGone
       THEN \* the receiver is dropped: send fails and ? returns from main
            MainReturns("failed")
       ELSE /\ Len(chan) < 1
            /\ chan' = Append(chan, [opcode |-> MainProgram[writerPc.i],
                                     tx |-> Len(oneshots) + 1])
            /\ oneshots' = Append(oneshots, NewOneshot(MainProgram[writerPc.i]))
            /\ writerPc' = WriterAdvance
            /\ UNCHANGED <<readerPc, cur>>
    /\ UNCHANGED <<wire, response_buf, written, answered, asyncSent, frames, consumed,
                   processed>>
    /\ UNCHANGED ext

\* stream.write_all_buf(&mut request_buf).await?
WriterWrite ==
    /\ writerPc.ph = "write"
    /\ written' = Append(written, MainProgram[writerPc.i])
    /\ writerPc' = WriterAdvance
    /\ UNCHANGED <<wire, response_buf, readerPc, cur, chan, oneshots, answered, asyncSent,
                   frames, consumed, processed>>
    /\ UNCHANGED ext

\* one_rx.await?
WriterAwait ==
    /\ writerPc.ph = "await"
    /\ LET mine == oneshots[Len(oneshots)]
       IN \/ /\ mine.state = "sent"
             /\ writerPc' = WriterAdvance
             /\ UNCHANGED <<readerPc, cur, chan, oneshots>>
          \/ /\ mine.state = "dropped"
             /\ MainReturns("failed")
    /\ UNCHANGED <<wire, response_buf, written, answered, asyncSent, frames, consumed,
                   processed>>
    /\ UNCHANGED ext

\* Ok(()) at line 1166
WriterExit ==
    /\ writerPc.ph = "exit"
    /\ MainReturns("done")
    /\ UNCHANGED <<wire, response_buf, written, answered, asyncSent, frames, consumed,
                   processed>>
    /\ UNCHANGED ext

Writer == WriterSend \/ WriterWrite \/ WriterAwait \/ WriterExit

(***************************************************************************)
(* The X server, the peer on the socket.                                   *)
(***************************************************************************)
StreamLen == IF frames = <<>> THEN 0 ELSE frames[Len(frames)].start + frames[Len(frames)].len

\* the server puts a frame on the socket
\* (for: the opcode a reply answers; value: the number an error frame reports)
Sent(bytes, class, for, value) ==
    /\ wire' = wire \o bytes
    /\ frames' = Append(frames, [start |-> StreamLen, len |-> Len(bytes), class |-> class,
                                 first |-> bytes[1], for |-> for, value |-> value,
                                 length |-> GetU32LE(bytes, 5)])

\* "fixed" and "SHAPE" in ASCII
NameFixed == <<102, 105, 120, 101, 100>>
NameShape == <<83, 72, 65, 80, 69>>

\* the replies the protocol defines for a request, with the contents the model tries
RepliesTo(opcode, seq) ==
    IF opcode = GetWindowAttributes THEN {ReplyGetWindowAttributes(seq)}
    ELSE IF opcode = QueryExtension THEN {ReplyQueryExtension(seq, 1, 129)}
    ELSE IF opcode = ListFonts
    THEN {ReplyListFonts(seq, <<NameFixed>>)}
    ELSE IF opcode = ListExtensions
    THEN {ReplyListExtensions(seq, <<>>), ReplyListExtensions(seq, <<NameShape>>)}
    ELSE {}

\* a resource id as the server reports it: base 0x00200000 and a counter
BadResourceId == 2097152 + 1

\* the frames the server sends on its own
AsyncErrors(seq) ==
    {ErrorFrame(ErrIDChoice, seq, BadResourceId, CreateWindow),
     ErrorFrame(ErrValue, seq, 7, ConfigureWindow)}
AsyncEvents(seq) == {EventFrame(EvKeyPress, 38, seq), EventFrame(22, 0, seq)}

\* the place in written of the k-th request the server owes a reply
ReplyRequestAt(k) ==
    CHOOSE i \in DOMAIN written :
        /\ AwaitsReply(written[i])
        /\ Cardinality({j \in 1..i : AwaitsReply(written[j])}) = k

Running == writerPc.ph \notin {"done", "failed"}

\* the server answers the oldest unanswered request with its reply
ServerReply ==
    /\ Running
    /\ answered < Len(SelectSeq(written, AwaitsReply))
    /\ LET i == ReplyRequestAt(answered + 1)
       IN \E bytes \in RepliesTo(written[i], i) : Sent(bytes, "reply", written[i], 0)
    /\ answered' = answered + 1
    /\ UNCHANGED <<response_buf, readerPc, cur, chan, oneshots, writerPc, written,
                   asyncSent, consumed, processed>>
    /\ UNCHANGED ext

\* the server answers the oldest unanswered request with an Error frame
ServerRefuses ==
    /\ Running
    /\ answered < Len(SelectSeq(written, AwaitsReply))
    /\ LET i == ReplyRequestAt(answered + 1)
       IN Sent(ErrorFrame(ErrWindow, i, BadResourceId, written[i]), "error", written[i],
               BadResourceId)
    /\ answered' = answered + 1
    /\ UNCHANGED <<response_buf, readerPc, cur, chan, oneshots, writerPc, written,
                   asyncSent, consumed, processed>>
    /\ UNCHANGED ext

\* an error for a request without a reply, or an event
ServerAsync ==
    /\ Running
    /\ written # <<>>
    /\ asyncSent < MaxAsync
    /\ \/ \E bytes \in AsyncErrors(Len(written)) : Sent(bytes, "error", 0, GetU32LE(bytes, 5))
       \/ \E bytes \in AsyncEvents(Len(written)) : Sent(bytes, "event", 0, 0)
    /\ asyncSent' = asyncSent + 1
    /\ UNCHANGED <<response_buf, readerPc, cur, chan, oneshots, writerPc, written,
                   answered, consumed, processed>>
    /\ UNCHANGED ext

Server == ServerReply \/ ServerRefuses \/ ServerAsync

Next == Reader \/ Writer \/ Server

Spec == Init /\ [][Next]_vars

\* Spec with the scheduling of the current_thread runtime (line 741): a task
\* that can take a step is polled, so neither the reader task nor main is
\* left waiting for ever while it could go on.  The server owes nothing.
SpecLive == Spec /\ WF_vars(Reader) /\ WF_vars(Writer)

(***************************************************************************)
(* SpecDemux: the reader task against any issuer and any peer.  The entry  *)
(* type (Opcodes, oneshot::Sender<Bytes>) of the channel (lines 925..928)  *)
(* admits every opcode, and the socket admits every frame.                 *)
(***************************************************************************)
\* the opcodes an issuer registers: those with a match arm, and one without
DemuxOpcodes == HandledOpcodes \cup {CreateWindow}

\* the frames a peer sends: an event, a frame of no known class, and a reply
\* without and with additional data (Error frames are SpecFrames' subject)
DemuxFrames ==
    {[bytes |-> EventFrame(EvKeyPress, 38, 5), class |-> "event", for |-> 0],
     [bytes |-> EventFrame(35, 0, 5), class |-> "unknown", for |-> 0],
     [bytes |-> ReplyQueryExtension(5, 1, 129), class |-> "reply", for |-> QueryExtension],
     [bytes |-> ReplyListFonts(5, <<NameFixed>>), class |-> "reply", for |-> ListFonts]}

\* oneshot::channel(); tx.send((opcode, one_tx)).await
DemuxRegister ==
    /\ ~ReaderGone
    /\ Len(oneshots) < MaxIssues
    /\ Len(chan) < 1
    /\ \E opcode \in DemuxOpcodes :
         /\ chan' = Append(chan, [opcode |-> opcode, tx |-> Len(oneshots) + 1])
         /\ oneshots' = Append(oneshots, NewOneshot(opcode))
    /\ UNCHANGED <<wire, response_buf, readerPc, cur, writerPc, written, answered,
                   asyncSent, frames, consumed, processed>>
    /\ UNCHANGED ext

\* the peer puts a frame on the socket
DemuxSend ==
    /\ Len(frames) < MaxDemuxFrames
    /\ \E f \in DemuxFrames : Sent(f.bytes, f.class, f.for, 0)
    /\ UNCHANGED <<response_buf, readerPc, cur, chan, oneshots, writerPc, written,
                   answered, asyncSent, consumed, processed>>
    /\ UNCHANGED ext

NextDemux == Reader \/ DemuxRegister \/ DemuxSend

SpecDemux == Init /\ [][NextDemux]_vars

(***************************************************************************)
(* SpecFrames: the reader task's loop over a stream of any frames, nothing *)
(* registered in the channel.                                              *)
(***************************************************************************)
\* error codes: the five with a match arm, two of the twelve without, one outside the enum
PlainErrorCodes ==
    {ErrRequest, ErrWindow, ErrMatch, ErrIDChoice, ErrLength, ErrValue, ErrImplementation, 18}
\* first bytes other than 0 and 1: inside and at the edges of 2..=34, and beyond
PlainFirstBytes ==
    {EvKeyPress, EvExpose, EvMappingNotify, EvMotionNotify, 22, 35}

\* the 4 bytes after the sequence number: a resource id, or anything
BadValueOf(code) == IF code = ErrIDChoice THEN BadResourceId ELSE 16909060 + code

PlainFrames ==
    {[bytes |-> ErrorFrame(code, 5, BadValueOf(code), CreateWindow), class |-> "error",
      value |-> BadValueOf(code)] : code \in PlainErrorCodes}
    \cup {[bytes |-> EventFrame(first, 38, 5), value |-> 0,
           class |-> IF first \in 2..34 THEN "event" ELSE "unknown"] :
        first \in PlainFirstBytes}
    \cup {[bytes |-> ReplyQueryExtension(5, 1, 129), class |-> "reply", value |-> 0]}

PlainSend ==
    /\ Len(frames) < MaxPlainFrames
    /\ \E f \in PlainFrames : Sent(f.bytes, f.class, 0, f.value)
    /\ UNCHANGED <<response_buf, readerPc, cur, chan, oneshots, writerPc, written,
                   answered, asyncSent, consumed, processed>>
    /\ UNCHANGED ext

NextFrames ==
    \/ ReaderRead
    \/ ReaderError
    \/ ReaderReply
    \/ ReaderEvent
    \/ ReaderUnknown
    \/ PlainSend

SpecFrames == Init /\ [][NextFrames]_vars

(***************************************************************************)
(* SpecIo: the program as main runs it, on a socket whose reads and writes *)
(* may return Err, against the server of Spec.                             *)
(***************************************************************************)
Fault(task) ==
    [task |-> task, pc |-> readerPc, processed |-> Len(processed), written |-> Len(written)]

\* read_stream.read_buf(..).await returns Err in the reader task: the result
\* is bound to n and never looked at (line 940), dropped by let _ (lines 977,
\* 990), and only in the ListFonts branch turned into Err(32) and returned
\* with ? (lines 1015..1018)
ReaderReadFails ==
    /\ ReaderNeedsBytes
    /\ Len(faults) < MaxFaults
    /\ faults' = Append(faults, Fault("reader"))
    /\ IF readerPc = "lf"
       THEN /\ readerPc' = "failed"
            /\ cur' = NoCur
            /\ chan' = <<>>
            /\ oneshots' = DropSenders(oneshots, ChanTxs \cup HeldTxs)
       ELSE UNCHANGED <<readerPc, cur, chan, oneshots>>
    /\ UNCHANGED <<wire, response_buf, writerPc, written, answered, asyncSent, frames,
                   consumed, processed, id_generator, ids, handshake, encoder>>

\* stream.write_all_buf(&mut request_buf).await? returns Err in main
WriterWriteFails ==
    /\ writerPc.ph = "write"
    /\ Len(faults) < MaxFaults
    /\ faults' = Append(faults, Fault("writer"))
    /\ MainReturns("failed")
    /\ UNCHANGED <<wire, response_buf, written, answered, asyncSent, frames, consumed,
                   processed, id_generator, ids, handshake, encoder>>

NextIo == Reader \/ Writer \/ Server \/ ReaderReadFails \/ WriterWriteFails

SpecIo == Init /\ [][NextIo]_vars

(***************************************************************************)
(* SpecIds: struct IdGenerator, lines 623..655, built from any of a set of *)
(* (base, mask) pairs and then asked for ids.                              *)
(***************************************************************************)
\* inc: mask & (!mask + 1), line 636.  The sum overflows u32 only for mask = 0:
\* a panic with overflow checks on; without them it wraps to 0.
IncOverflows(mask) == WAddOverflows(WNot(mask), Word(0, 1))
\* (a variant: the step is always 1)
IdGeneratorInc_One(mask) == Word(0, 1)
IdGeneratorInc(mask) == WAnd(mask, WAdd(WNot(mask), Word(0, 1)))

\* IdGenerator::new, lines 631..638
IdGeneratorNew(base, mask) ==
    [built |-> TRUE, last |-> Word(0, 0), max |-> mask, base |-> base,
     inc |-> IdGeneratorInc(mask)]

\* self.last == self.max, line 647
\* (a variant: self.last > self.max)
Exhausted_Beyond(g) == WLess(g.max, g.last)
Exhausted(g) == g.last = g.max

\* self.last += self.inc, line 651: whether it overflows, and the sum
NextLastOverflows(g) == WAddOverflows(g.last, g.inc)
\* (a variant: self.last is left as it is)
NextLast_Keeps(g) == g.last
\* (a variant: the step is taken twice)
NextLast_Twice(g) == WAdd(g.last, WAdd(g.inc, g.inc))
NextLast(g) == WAdd(g.last, g.inc)

\* self.last | self.base, line 653
\* (a variant: self.last + self.base)
IdOf_Sum(last, base) == WAdd(last, base)
IdOf(last, base) == WOr(last, base)

None == [some |-> FALSE, value |-> Word(0, 0)]
Some(v) == [some |-> TRUE, value |-> v]

\* the (base, mask) pairs: resource-id-base and -mask as a server announces
\* them (the mask one run of bits, the base clear of it, as 0x00200000 and
\* 0x001FFFFF), masks with a gap, bases that share bits with the mask, the
\* masks 0 and 0xFFFFFFFF, and the masks 0x80000000 and 0xC0000000 whose last
\* step ends at the top of u32
IdBases == {Word(0, 0), Word(0, 2), Word(0, 8), Word(32, 0)}
IdMasks ==
    {Word(0, 0), Word(0, 1), Word(0, 3), Word(0, 5), Word(0, 6), Word(0, 7), Word(0, 10),
     Word(0, 12), Word(31, 65535), Word(65535, 65535), Word(32768, 0), Word(49152, 0)}

InitIds ==
    /\ SessionStarts
    /\ faults = <<>>
    /\ ids = <<>>
    /\ handshake = NoHandshake
    /\ encoder = NoEncoder
    /\ \E base \in IdBases, mask \in IdMasks :
          \/ /\ IncOverflows(mask)
             /\ id_generator = [NoIdGenerator EXCEPT !.max = mask, !.base = base]
          \/ id_generator = IdGeneratorNew(base, mask)

\* IdGenerator::next, lines 644..654
IdGeneratorNext ==
    /\ id_generator.built
    /\ Len(ids) < MaxNextCalls
    /\ IF Exhausted(id_generator)
       THEN /\ ids' = Append(ids, [before |-> id_generator.last, result |-> None,
                                   after |-> id_generator.last])
            /\ UNCHANGED id_generator
       ELSE LET last == NextLast(id_generator)
            IN \/ /\ id_generator' = [id_generator EXCEPT !.last = last]
                  /\ ids' = Append(ids, [before |-> id_generator.last,
                                         result |-> Some(IdOf(last, id_generator.base)),
                                         after |-> last])
               \/ \* with overflow checks on, an overflowing += panics
                  /\ NextLastOverflows(id_generator)
                  /\ id_generator' = [id_generator EXCEPT !.built = FALSE]
                  /\ UNCHANGED ids
    /\ UNCHANGED <<wire, response_buf, readerPc, cur, chan, oneshots, writerPc, written,
                   answered, asyncSent, frames, consumed, processed, faults, handshake, encoder>>

NextIds == IdGeneratorNext

SpecIds == InitIds /\ [][NextIds]_vars

(***************************************************************************)
(* The connection setup, lines 757..922: what the server answers, and how  *)
(* main decodes it.                                                        *)
(***************************************************************************)
\* a VISUALTYPE, 24 bytes, of the given class
VisualTypeBytes(class) ==
    PutU32LE(33) \o <<class, 8>> \o PutU16LE(256)
    \o PutU32LE(16711680) \o PutU32LE(65280) \o PutU32LE(255) \o Zeros(4)
\* a DEPTH: 8 bytes and its visuals, given as the sequence of their classes
DepthBytes(classes) ==
    <<24, 0>> \o PutU16LE(Len(classes)) \o Zeros(4)
    \o Flatten([i \in DOMAIN classes |-> VisualTypeBytes(classes[i])])
\* a SCREEN: 40 bytes and its depths
ScreenBytes(screen) ==
    PutU32LE(1319) \o PutU32LE(32) \o PutU32LE(16777215) \o PutU32LE(0)
    \o PutU32LE(screen.current_input_masks)
    \o PutU16LE(1024) \o PutU16LE(768) \o PutU16LE(270) \o PutU16LE(203)
    \o PutU16LE(1) \o PutU16LE(1) \o PutU32LE(33)
    \o <<screen.backing_stores, screen.save_unders, 24, Len(screen.allowed_depths)>>
    \o Flatten([i \in DOMAIN screen.allowed_depths |-> DepthBytes(screen.allowed_depths[i])])
\* a FORMAT, 8 bytes
FormatBytes == <<24, 32, 32>> \o Zeros(5)
\* the additional data of a setup response
SetupBody(r) ==
    PutU32LE(12101004) \o PutU32LE(2097152) \o PutU32LE(2097151) \o PutU32LE(256)
    \o PutU16LE(Len(r.vendor)) \o PutU16LE(65535)
    \o <<Len(r.screen_roots), r.formats, r.image_byte_order, r.bitmap_format_bit_order>>
    \o <<32, 32, 8, 255>> \o Zeros(4)
    \o r.vendor \o Zeros(pad(Len(r.vendor)))
    \o Flatten([i \in 1..r.formats |-> FormatBytes])
    \o Flatten([i \in DOMAIN r.screen_roots |-> ScreenBytes(r.screen_roots[i])])
\* the response: status, protocol version 11.0, length of the additional data
\* in 4-byte units, the additional data
SetupResponse(r) ==
    <<r.status_code, 0>> \o PutU16LE(11) \o PutU16LE(0)
    \o PutU16LE(Len(SetupBody(r)) \div 4) \o SetupBody(r)

\* the values the decoder accepts for an enumeration byte; anything else is
\* a panic!
\* image_byte_order, lines 808..812, and bitmap_format_bit_order, 814..818
ByteOrderKnown(byte) == byte \in {0, 1}
\* backing_stores, lines 860..865
BackingStoresKnown(byte) == byte \in {0, 1, 2}
\* save_unders, lines 866..870
SaveUndersKnown(byte) == byte \in {0, 1}
\* (a variant: every class byte is taken)
VisualClassKnown_Any(byte) == TRUE
\* visual class, lines 895..903
VisualClassKnown(byte) == byte \in 0..5

\* (a variant: the 5 unused bytes of a format are not skipped)
AfterFormats_NoAdvance(pos, number_formats) == pos + number_formats * (1 + 1 + 1)
\* the format loop, lines 835..842: three get_u8 and advance(5) per format
AfterFormats(pos, number_formats) == pos + number_formats * (1 + 1 + 1 + 5)

\* Buf::get_* and advance panic when fewer bytes remain than they take:
\* n bytes remain in b from position pos on
Remain(b, pos, n) == pos + n - 1 <= Len(b)

\* lines 892..911: the visuals of one depth, left of them still to read from
\* position pos; count = how many were pushed
RECURSIVE DecodeVisualTypes(_, _, _, _)
DecodeVisualTypes(b, pos, left, count) ==
    IF left = 0 THEN [panic |-> FALSE, pos |-> pos, count |-> count]
    ELSE IF ~Remain(b, pos, 24) THEN [panic |-> TRUE, pos |-> pos, count |-> count]
    ELSE IF ~VisualClassKnown(b[pos + 4])
    THEN \* panic!("unknown visual class")
         [panic |-> TRUE, pos |-> pos, count |-> count]
    ELSE DecodeVisualTypes(b, pos + 4 + 1 + 1 + 2 + 4 + 4 + 4 + 4, left - 1, count + 1)

\* lines 876..912: the depths of one screen; depths = the visuals pushed per depth
RECURSIVE DecodeDepths(_, _, _, _)
DecodeDepths(b, pos, left, depths) ==
    IF left = 0 THEN [panic |-> FALSE, pos |-> pos, depths |-> depths]
    ELSE IF ~Remain(b, pos, 8) THEN [panic |-> TRUE, pos |-> pos, depths |-> depths]
    ELSE LET number_visual_types == GetU16LE(b, pos + 2)
             v == DecodeVisualTypes(b, pos + 1 + 1 + 2 + 4, number_visual_types, 0)
         IN IF v.panic THEN [panic |-> TRUE, pos |-> v.pos, depths |-> depths]
            ELSE DecodeDepths(b, v.pos, left - 1, Append(depths, v.count))

\* BitFlags::from_bits(..).expect("valid input masks"): enum Event, lines
\* 108..136, has the 25 bits 0x00000001..0x01000000, so bits 25..31 must be 0
ValidInputMasks(b, pos) == b[pos + 3] <= 1

\* lines 845..913: the screens; screen_roots = per screen, the depths pushed
RECURSIVE DecodeScreens(_, _, _, _)
DecodeScreens(b, pos, left, screen_roots) ==
    IF left = 0 THEN [panic |-> FALSE, pos |-> pos, screen_roots |-> screen_roots]
    ELSE IF ~Remain(b, pos, 40)
    THEN [panic |-> TRUE, pos |-> pos, screen_roots |-> screen_roots]
    ELSE IF \/ ~ValidInputMasks(b, pos + 16)
            \/ ~BackingStoresKnown(b[pos + 36])  \* panic!("unknown backing store code")
            \/ ~SaveUndersKnown(b[pos + 37])     \* panic!("save unders must be either 0 or 1")
    THEN [panic |-> TRUE, pos |-> pos, screen_roots |-> screen_roots]
    ELSE LET number_depths_in_allowed_depths == b[pos + 39]
             d == DecodeDepths(b, pos + 40, number_depths_in_allowed_depths, <<>>)
         IN IF d.panic
            THEN [panic |-> TRUE, pos |-> d.pos, screen_roots |-> screen_roots]
            ELSE DecodeScreens(b, d.pos, left - 1, Append(screen_roots, d.depths))

\* lines 793..915: the additional data; b is response after the 8 bytes of the
\* header, all that is buffered of it.  used = the bytes taken from b.
DecodeSetup(b) ==
    LET stopped(pos) ==
            [NoResult EXCEPT !.panic = TRUE, !.started = TRUE, !.used = pos - 1,
                             !.buffered = Len(b)]
    IN  IF ~Remain(b, 1, 32) THEN stopped(1)
        ELSE LET vendor_len == GetU16LE(b, 17)
                 number_screens_roots == b[21]
                 number_formats == b[22]
                 after_vendor == 33 + vendor_len + pad(vendor_len)
                 after_formats == AfterFormats(after_vendor, number_formats)
             IN  IF \/ ~ByteOrderKnown(b[23])  \* panic!("unknown image byte order")
                    \/ ~ByteOrderKnown(b[24])  \* panic!("unknown bitmap format bit order")
                 THEN stopped(23)
                 ELSE IF \/ ~Remain(b, 33, vendor_len + pad(vendor_len))
                         \/ \E i \in 33..(32 + vendor_len) : b[i] > 127  \* expect("must be ASCII")
                 THEN stopped(33)
                 ELSE IF ~Remain(b, after_vendor, after_formats - after_vendor)
                 THEN stopped(after_vendor)
                 ELSE LET s == DecodeScreens(b, after_formats, number_screens_roots, <<>>)
                      IN  IF s.panic THEN stopped(s.pos)
                          ELSE IF s.screen_roots = <<>>
                          THEN \* screen_roots.first().unwrap(), line 915
                               stopped(s.pos)
                          ELSE [panic |-> FALSE, started |-> TRUE, used |-> s.pos - 1,
                                buffered |-> Len(b),
                                number_formats |-> number_formats,
                                formats |-> number_formats,
                                number_screens_roots |-> number_screens_roots,
                                screen_roots |-> s.screen_roots,
                                resource_id_base |-> GetU32LE(b, 5),
                                resource_id_mask |-> GetU32LE(b, 9)]

\* match status_code, lines 772..777: 0 and anything above 2 panic; 1 and 2
\* print a line and go on
StatusPanics(status_code) == status_code \notin {1, 2}

(***************************************************************************)
(* SpecHandshake: main from line 758 to its first request, against a       *)
(* server that answers the connection request with one of SetupShapes.     *)
(***************************************************************************)
\* a screen without depths, and the plainest success response: one such
\* screen, no formats, no vendor
PlainScreen ==
    [current_input_masks |-> 0, backing_stores |-> 0, save_unders |-> 0,
     allowed_depths |-> <<>>]
PlainShape ==
    [status_code |-> 1, vendor |-> <<>>, formats |-> 0, image_byte_order |-> 0,
     bitmap_format_bit_order |-> 0, screen_roots |-> <<PlainScreen>>, cut |-> 0]
\* a screen with two depths: one without visuals, one with two
DeepScreen == [PlainScreen EXCEPT !.allowed_depths = <<<<>>, <<4, 5>>>>, !.backing_stores = 2,
                                  !.save_unders = 1, !.current_input_masks = 16777215]
\* a response with a vendor ("X.O", padded by 1), two formats and two screens
FullShape ==
    [PlainShape EXCEPT !.vendor = <<88, 46, 79>>, !.formats = 2, !.image_byte_order = 1,
                       !.bitmap_format_bit_order = 1,
                       !.screen_roots = <<DeepScreen, PlainScreen>>]

\* the responses that follow the protocol and that the client covers
GoodShapes ==
    {PlainShape, FullShape,
     [PlainShape EXCEPT !.formats = 1],
     [PlainShape EXCEPT !.vendor = <<88, 49>>],
     [PlainShape EXCEPT !.screen_roots = <<DeepScreen>>]}

\* responses with one enumeration byte outside its range
BadEnumShapes ==
    {[PlainShape EXCEPT !.image_byte_order = 2],
     [PlainShape EXCEPT !.bitmap_format_bit_order = 2],
     [PlainShape EXCEPT !.screen_roots = <<[PlainScreen EXCEPT !.backing_stores = 3]>>],
     [PlainShape EXCEPT !.screen_roots = <<[PlainScreen EXCEPT !.save_unders = 2]>>],
     [PlainShape EXCEPT !.screen_roots = <<[PlainScreen EXCEPT !.allowed_depths = <<<<6>>>>]>>]}

\* other responses: the three other status codes, a vendor outside ASCII, an
\* undefined event bit, no screen at all, and a response cut short by one
\* 4-byte unit
OtherShapes ==
    {[PlainShape EXCEPT !.status_code = 0],
     [PlainShape EXCEPT !.status_code = 2],
     [FullShape EXCEPT !.status_code = 2],
     [PlainShape EXCEPT !.status_code = 3],
     [PlainShape EXCEPT !.vendor = <<233>>],
     [PlainShape EXCEPT !.screen_roots = <<[PlainScreen EXCEPT !.current_input_masks = 33554432]>>],
     [PlainShape EXCEPT !.screen_roots = <<>>],
     [PlainShape EXCEPT !.screen_roots = <<DeepScreen>>, !.cut = 1]}

SetupShapes == GoodShapes \cup BadEnumShapes \cup OtherShapes

\* the bytes the server sends for a shape
SetupBytes(r) ==
    LET body == SubSeq(SetupBody(r), 1, Len(SetupBody(r)) - 4 * r.cut)
    IN  <<r.status_code, 0>> \o PutU16LE(11) \o PutU16LE(0) \o PutU16LE(Len(body) \div 4)
        \o body

InitHandshake ==
    /\ SessionStarts
    /\ faults = <<>>
    /\ id_generator = NoIdGenerator
    /\ ids = <<>>
    /\ \E r \in SetupShapes : handshake = [NoHandshake EXCEPT !.pc = "connect", !.shape = r]
    /\ encoder = NoEncoder

\* the negation of the loop condition at line 789, response being everything
\* read so far and the 8 bytes of the header taken from it
EnoughBuffered(response, additional_data_len) ==
    Len(response) - 8 >= additional_data_len * 4

\* the header is decoded and enough is buffered: lines 793..915
HsDecoded(response) ==
    LET result == DecodeSetup(SubSeq(response, 9, Len(response)))
    IN  [handshake EXCEPT !.pc = IF result.panic THEN "panicked" ELSE "decoded",
                          !.wire = SubSeq(handshake.wire, Len(response) - Len(handshake.response) + 1,
                                          Len(handshake.wire)),
                          !.response = response,
                          !.status_code = response[1],
                          !.additional_data_len = GetU16LE(response, 7),
                          !.result = result]

\* stream.write_all_buf(&mut connection_req).await?, line 767; the server
\* answers
HsConnect ==
    /\ handshake.pc = "connect"
    /\ handshake' = [handshake EXCEPT !.pc = "read", !.wire = SetupBytes(handshake.shape)]
    /\ UNCHANGED <<wire, response_buf, readerPc, cur, chan, oneshots, writerPc, written,
                   answered, asyncSent, frames, consumed, processed, faults, id_generator,
                   ids, encoder>>

\* the one read_buf at line 770, which returns any non-empty prefix of what
\* the server sent, and the header decode of lines 771..786
HsFirstRead ==
    /\ handshake.pc = "read"
    /\ \E n \in 1..Len(handshake.wire) :
          LET response == SubSeq(handshake.wire, 1, n)
              rest == SubSeq(handshake.wire, n + 1, Len(handshake.wire))
          IN  handshake' =
                  IF StatusPanics(response[1])
                  THEN [handshake EXCEPT !.pc = "panicked", !.wire = rest,
                                         !.response = response,
                                         !.status_code = response[1]]
                  ELSE IF ~Remain(response, 1, 8)
                  THEN \* advance(1) or a get_u16_le past the end
                       [handshake EXCEPT !.pc = "panicked", !.wire = rest,
                                         !.response = response,
                                         !.status_code = response[1]]
                  ELSE IF EnoughBuffered(response, GetU16LE(response, 7))
                  THEN HsDecoded(response)
                  ELSE [handshake EXCEPT !.pc = "accumulate", !.wire = rest,
                                         !.response = response,
                                         !.status_code = response[1],
                                         !.additional_data_len = GetU16LE(response, 7)]
    /\ UNCHANGED <<wire, response_buf, readerPc, cur, chan, oneshots, writerPc, written,
                   answered, asyncSent, frames, consumed, processed, faults, id_generator,
                   ids, encoder>>

\* one turn of the loop at lines 789..791
HsRead ==
    /\ handshake.pc = "accumulate"
    /\ \E n \in 1..Len(handshake.wire) :
          LET response == handshake.response \o SubSeq(handshake.wire, 1, n)
          IN  handshake' =
                  IF EnoughBuffered(response, handshake.additional_data_len)
                  THEN HsDecoded(response)
                  ELSE [handshake EXCEPT !.wire = SubSeq(handshake.wire, n + 1,
                                                         Len(handshake.wire)),
                                         !.response = response]
    /\ UNCHANGED <<wire, response_buf, readerPc, cur, chan, oneshots, writerPc, written,
                   answered, asyncSent, frames, consumed, processed, faults, id_generator,
                   ids, encoder>>

\* main goes on: it splits the stream, spawns the reader and writes its first
\* request, lines 924..1046 (the calls of lines 1041..1046 come after the spawn)
HsFirstRequest ==
    /\ handshake.pc = "decoded"
    /\ handshake' = [handshake EXCEPT !.pc = "session"]
    /\ written' = Append(written, MainProgram[writerPc.i])
    /\ writerPc' = WriterAdvance
    /\ UNCHANGED <<wire, response_buf, readerPc, cur, chan, oneshots, answered, asyncSent,
                   frames, consumed, processed, faults, id_generator, ids, encoder>>

NextHandshake == HsConnect \/ HsFirstRead \/ HsRead \/ HsFirstRequest

SpecHandshake == InitHandshake /\ [][NextHandshake]_vars

(***************************************************************************)
(* SpecEncoders: the request encoders, lines 266..544 and 677..726, called *)
(* in any order on one buffer, with an IdGenerator that may run out.       *)
(***************************************************************************)
\* put_u32_le of a 32-bit word, put_i16_le of a signed number
PutWordLE(w) == PutU16LE(w.lo) \o PutU16LE(w.hi)
PutI16LE(v) == PutU16LE((v + 65536) % 65536)

\* (a variant: an exhausted generator hands out its last id again)
TakeId_Stale(g) ==
    IF Exhausted(g) THEN [g |-> g, id |-> Some(IdOf(g.last, g.base))]
    ELSE [g |-> [g EXCEPT !.last = NextLast(g)], id |-> Some(IdOf(NextLast(g), g.base))]
\* id_generator.next() as an encoder calls it: the generator afterwards and
\* the Option returned
TakeId(g) ==
    IF Exhausted(g) THEN [g |-> g, id |-> None]
    ELSE [g |-> [g EXCEPT !.last = NextLast(g)], id |-> Some(IdOf(NextLast(g), g.base))]

\* the record of that call of next(): the counter before and after and the
\* Option returned
TakenId(g) == [before |-> g.last, result |-> TakeId(g).id, after |-> TakeId(g).g.last]

\* the bytes of each request, in the order of the put_* calls
\* create_window_request, lines 291..328; the bits of BackgroundPixel |
\* EventMask and of the seven events are those of lines 274..286 and 110..125
CreateWindowHead == <<CreateWindow, 0>> \o PutU16LE(8 + 2)
\* (a variant: the parent is written before the new window's id)
CreateWindowBytes_ParentFirst(id, screen) ==
    CreateWindowHead \o PutU32LE(screen.window) \o PutWordLE(id)
    \o PutI16LE(200) \o PutI16LE(200) \o PutU16LE(100) \o PutU16LE(100) \o PutU16LE(4)
    \o PutU16LE(0) \o PutU32LE(screen.root_visual) \o PutU32LE(BitOr(2, 2048))
    \o PutU32LE(screen.white_pixel)
    \o PutU32LE(1 + 2 + 4 + 8 + 16 + 32 + 32768)
CreateWindowBytes(id, screen) ==
    CreateWindowHead \o PutWordLE(id) \o PutU32LE(screen.window)
    \o PutI16LE(200) \o PutI16LE(200) \o PutU16LE(100) \o PutU16LE(100) \o PutU16LE(4)
    \o PutU16LE(0) \o PutU32LE(screen.root_visual) \o PutU32LE(BitOr(2, 2048))
    \o PutU32LE(screen.white_pixel)
    \o PutU32LE(1 + 2 + 4 + 8 + 16 + 32 + 32768)
\* lines 333..338, 340..345, 372..377, 379..384, 468..473
WindowRequestBytes(opcode, wid) == <<opcode, 0>> \o PutU16LE(2) \o PutWordLE(wid)
\* configure_window, lines 430..433: the values written after the mask; x and
\* y are the sums 200 + x and 200 + y as i16
ConfigureWindowValues(commands, x, y) ==
    PutI16LE(x) \o PutU16LE(0) \o PutI16LE(y) \o PutU16LE(0)
\* configure_window, lines 422..428
ConfigureWindowHead(window_id, commands) ==
    <<ConfigureWindow, 0>> \o PutU16LE(3 + Len(commands)) \o PutWordLE(window_id)
    \o PutU16LE(BitOr(1, 2)) \o PutU16LE(0)
\* create_gc, lines 443..463 (the head: lines 444..446); Foreground | Background | Font are 0x4, 0x8 and
\* 0x4000; 0xFF00FF00 and 0xFF000000 as words
CreateGCHead == <<CreateGC, 0>> \o PutU16LE(4 + 3)
\* (a variant: the font id is written before the two colours)
CreateGCBytes_FontFirst(id, window_id, font_id) ==
    CreateGCHead \o PutWordLE(id) \o PutWordLE(window_id)
    \o PutU32LE(BitOr(4, BitOr(8, 16384)))
    \o PutWordLE(font_id) \o PutWordLE(Word(65280, 65280)) \o PutWordLE(Word(65280, 0))
CreateGCBytes(id, window_id, font_id) ==
    CreateGCHead \o PutWordLE(id) \o PutWordLE(window_id)
    \o PutU32LE(BitOr(4, BitOr(8, 16384)))
    \o PutWordLE(Word(65280, 65280)) \o PutWordLE(Word(65280, 0)) \o PutWordLE(font_id)
\* list_fonts, lines 476..487: the pattern is "*"
ListFontsBytes ==
    <<ListFonts, 0>> \o PutU16LE(2 + (1 + pad(1)) \div 4) \o PutU16LE(1000) \o PutU16LE(1)
    \o <<42>> \o Zeros(pad(1))
\* (a variant: the name is not padded)
QueryExtensionBytes_NoPad(extension_name) ==
    LET n == Len(extension_name)
        p == pad(n)
    IN  <<QueryExtension, 0>> \o PutU16LE(2 + (n + p) \div 4) \o PutU16LE(n) \o PutU16LE(0)
        \o extension_name
\* query_extension, lines 491..499
QueryExtensionBytes(extension_name) ==
    LET n == Len(extension_name)
        p == pad(n)
    IN  <<QueryExtension, 0>> \o PutU16LE(2 + (n + p) \div 4) \o PutU16LE(n) \o PutU16LE(0)
        \o extension_name \o Zeros(p)
\* list_extensions, lines 513..515
ListExtensionsBytes == <<ListExtensions, 0>> \o PutU16LE(1)
\* open_font, lines 519..528: the name is "fixed"
OpenFontBytes(font_id) ==
    <<OpenFont, 0>> \o PutU16LE(3 + (5 + pad(5)) \div 4) \o PutWordLE(font_id)
    \o PutU16LE(5) \o PutU16LE(0) \o NameFixed \o Zeros(pad(5))
\* "Hello World" in ASCII
HelloWorld == <<72, 101, 108, 108, 111, 32, 87, 111, 114, 108, 100>>
\* image_text_8, lines 534..543; advance_mut leaves the pad byte as it was
\* in memory: junk
ImageText8Bytes(window_id, gc_id, x, y, junk) ==
    <<ImageText8, 11>> \o PutU16LE(4 + (11 + pad(11)) \div 4) \o PutWordLE(window_id)
    \o PutWordLE(gc_id) \o PutU16LE(x) \o PutU16LE(y) \o HelloWorld \o junk
\* ShapeExtension::query_version, lines 683..685
ShapeQueryVersionBytes(major_opcode) == <<major_opcode, 0>> \o PutU16LE(1)
\* ShapeExtension::rectangles, lines 689..699; Set = 0, Clip = 1
ShapeRectanglesBytes(major_opcode, window_id, x_offset, y_offset, junk) ==
    <<major_opcode, 1>> \o PutU16LE(0) \o <<0, 1, 0>> \o junk \o PutWordLE(window_id)
    \o PutU16LE(x_offset) \o PutU16LE(y_offset)
\* ShapeExtension::mask, lines 710..725
ShapeMaskBytes(major_opcode, window_id, x_offset, y_offset, pixmap_id, junk) ==
    <<major_opcode, 2>> \o PutU16LE(5) \o <<0, 1>> \o junk \o PutWordLE(window_id)
    \o PutU16LE(x_offset) \o PutU16LE(y_offset)
    \o PutWordLE(IF pixmap_id = None THEN Word(0, 0) ELSE pixmap_id.value)

\* the arguments the encoders are called with
\* what advance_mut may leave in a byte it skips
JunkBytes == {0, 170}
WindowIds == {Word(32, 1), Word(65535, 65535)}
Screens ==
    {[window |-> 1319, root_visual |-> 33, white_pixel |-> 16777215],
     [window |-> 620, root_visual |-> 71, white_pixel |-> 1]}
CommandSlices ==
    {<<>>, <<"X">>, <<"X", "Y">>, <<"Width", "Height", "StackMode">>}
\* the x given to configure_window: 200 + x fits i16, or not
ConfigureXs == {0, 32767}
ExtensionNames ==
    {<<>>, <<88, 49>>, <<68, 82, 73>>, NameShape,
     <<66, 73, 71, 45, 82, 69, 81, 85, 69, 83, 84, 83>>}
PixmapIds == {None, Some(Word(32, 9))}
ShapeOpcodes == {129}
\* the (base, mask) the generator is built from: enough ids, or only one
EncoderMasks == {Word(31, 65535), Word(0, 1)}

InitEncoders ==
    /\ SessionStarts
    /\ faults = <<>>
    /\ ids = <<>>
    /\ handshake = NoHandshake
    /\ \E mask \in EncoderMasks : id_generator = IdGeneratorNew(Word(32, 0), mask)
    /\ encoder = [NoEncoder EXCEPT !.pc = "run"]

\* a finished call: its bytes are in buf
Called(name, args, bytes, returned) ==
    encoder' = [encoder EXCEPT
                  !.buf = @ \o bytes,
                  !.calls = Append(@, [encoder |-> name, args |-> args, panic |-> FALSE,
                                       at |-> Len(encoder.buf), len |-> Len(bytes),
                                       returned |-> returned])]
\* a call that panicked after appending bytes
Panicked(name, args, bytes) ==
    encoder' = [encoder EXCEPT
                  !.pc = "panicked",
                  !.buf = @ \o bytes,
                  !.calls = Append(@, [encoder |-> name, args |-> args, panic |-> TRUE,
                                       at |-> Len(encoder.buf), len |-> Len(bytes),
                                       returned |-> None])]

MayCall == encoder.pc = "run" /\ Len(encoder.calls) < MaxEncodes

EncCreateWindow ==
    /\ MayCall
    /\ \E screen \in Screens :
          LET t == TakeId(id_generator)
          IN  /\ id_generator' = t.g
              /\ IF t.id = None
                 THEN \* panic!("no more ids"), line 298
                      Panicked("create_window_request", [screen |-> screen],
                               CreateWindowHead)
                 ELSE Called("create_window_request", [screen |-> screen],
                             CreateWindowBytes(t.id.value, screen), t.id)
    /\ ids' = Append(ids, TakenId(id_generator))
    /\ UNCHANGED <<wire, response_buf, readerPc, cur, chan, oneshots, writerPc, written,
                   answered, asyncSent, frames, consumed, processed, faults, handshake>>

EncWindowRequest ==
    /\ MayCall
    /\ \E wid \in WindowIds :
       \E f \in {[name |-> "destroy_window_request", opcode |-> DestroyWindow],
                 [name |-> "get_window_attributes_request", opcode |-> GetWindowAttributes],
                 [name |-> "map_window_request", opcode |-> MapWindow],
                 [name |-> "unmap_window_request", opcode |-> UnmapWindow],
                 [name |-> "free_gc", opcode |-> FreeGC]} :
          Called(f.name, [wid |-> wid], WindowRequestBytes(f.opcode, wid), None)
    /\ UNCHANGED <<wire, response_buf, readerPc, cur, chan, oneshots, writerPc, written,
                   answered, asyncSent, frames, consumed, processed, faults, id_generator,
                   ids, handshake>>

EncConfigureWindow ==
    /\ MayCall
    /\ \E window_id \in WindowIds, commands \in CommandSlices, x \in ConfigureXs :
          LET args == [window_id |-> window_id, commands |-> commands, x |-> x, y |-> 0]
              head == ConfigureWindowHead(window_id, commands)
          IN  IF 200 + x <= 32767
              THEN Called("configure_window", args,
                          head \o ConfigureWindowValues(commands, 200 + x, 200), None)
              ELSE \* 200 + x overflows i16: a panic with overflow checks on, a
                   \* wrapped sum without them
                   \/ Panicked("configure_window", args, head)
                   \/ Called("configure_window", args,
                             head \o ConfigureWindowValues(commands, 200 + x - 65536, 200),
                             None)
    /\ UNCHANGED <<wire, response_buf, readerPc, cur, chan, oneshots, writerPc, written,
                   answered, asyncSent, frames, consumed, processed, faults, id_generator,
                   ids, handshake>>

EncCreateGC ==
    /\ MayCall
    /\ \E window_id \in WindowIds :
          LET t == TakeId(id_generator)
              args == [window_id |-> window_id, font_id |-> Word(32, 2)]
          IN  /\ id_generator' = t.g
              /\ IF t.id = None
                 THEN \* panic!("no more ids"), line 451
                      Panicked("create_gc", args, CreateGCHead)
                 ELSE Called("create_gc", args,
                             CreateGCBytes(t.id.value, window_id, args.font_id), t.id)
    /\ ids' = Append(ids, TakenId(id_generator))
    /\ UNCHANGED <<wire, response_buf, readerPc, cur, chan, oneshots, writerPc, written,
                   answered, asyncSent, frames, consumed, processed, faults, handshake>>

EncListFonts ==
    /\ MayCall
    /\ Called("list_fonts", <<>>, ListFontsBytes, None)
    /\ UNCHANGED <<wire, response_buf, readerPc, cur, chan, oneshots, writerPc, written,
                   answered, asyncSent, frames, consumed, processed, faults, id_generator,
                   ids, handshake>>

EncQueryExtension ==
    /\ MayCall
    /\ \E extension_name \in ExtensionNames :
          Called("query_extension", [extension_name |-> extension_name],
                 QueryExtensionBytes(extension_name), None)
    /\ UNCHANGED <<wire, response_buf, readerPc, cur, chan, oneshots, writerPc, written,
                   answered, asyncSent, frames, consumed, processed, faults, id_generator,
                   ids, handshake>>

EncListExtensions ==
    /\ MayCall
    /\ Called("list_extensions", <<>>, ListExtensionsBytes, None)
    /\ UNCHANGED <<wire, response_buf, readerPc, cur, chan, oneshots, writerPc, written,
                   answered, asyncSent, frames, consumed, processed, faults, id_generator,
                   ids, handshake>>

EncOpenFont ==
    /\ MayCall
    /\ LET t == TakeId(id_generator)
       IN  /\ id_generator' = t.g
           /\ IF t.id = None
              THEN \* id_generator.next().unwrap(), line 520, before any put
                   Panicked("open_font", <<>>, <<>>)
              ELSE Called("open_font", <<>>, OpenFontBytes(t.id.value), t.id)
    /\ ids' = Append(ids, TakenId(id_generator))
    /\ UNCHANGED <<wire, response_buf, readerPc, cur, chan, oneshots, writerPc, written,
                   answered, asyncSent, frames, consumed, processed, faults, handshake>>

EncImageText8 ==
    /\ MayCall
    /\ \E window_id \in WindowIds, junk \in JunkBytes :
          LET args == [window_id |-> window_id, gc_id |-> Word(32, 3), x |-> 10, y |-> 30]
          IN  \/ Called("image_text_8", args,
                        ImageText8Bytes(window_id, args.gc_id, args.x, args.y, <<junk>>), None)
              \/ \* buf has no spare capacity left: advance_mut panics
                 Panicked("image_text_8", args,
                          ImageText8Bytes(window_id, args.gc_id, args.x, args.y, <<>>))
    /\ UNCHANGED <<wire, response_buf, readerPc, cur, chan, oneshots, writerPc, written,
                   answered, asyncSent, frames, consumed, processed, faults, id_generator,
                   ids, handshake>>

EncShapeQueryVersion ==
    /\ MayCall
    /\ \E major_opcode \in ShapeOpcodes :
          Called("ShapeExtension::query_version", [major_opcode |-> major_opcode],
                 ShapeQueryVersionBytes(major_opcode), None)
    /\ UNCHANGED <<wire, response_buf, readerPc, cur, chan, oneshots, writerPc, written,
                   answered, asyncSent, frames, consumed, processed, faults, id_generator,
                   ids, handshake>>

EncShapeRectangles ==
    /\ MayCall
    /\ \E major_opcode \in ShapeOpcodes, window_id \in WindowIds, junk \in JunkBytes :
          LET args == [major_opcode |-> major_opcode, window_id |-> window_id,
                       x_offset |-> 5, y_offset |-> 7]
          IN  \/ Called("ShapeExtension::rectangles", args,
                        ShapeRectanglesBytes(major_opcode, window_id, args.x_offset,
                                             args.y_offset, <<junk>>), None)
              \/ \* buf has no spare capacity left: advance_mut panics
                 Panicked("ShapeExtension::rectangles", args,
                          <<major_opcode, 1>> \o PutU16LE(0) \o <<0, 1, 0>>)
    /\ UNCHANGED <<wire, response_buf, readerPc, cur, chan, oneshots, writerPc, written,
                   answered, asyncSent, frames, consumed, processed, faults, id_generator,
                   ids, handshake>>

EncShapeMask ==
    /\ MayCall
    /\ \E major_opcode \in ShapeOpcodes, pixmap_id \in PixmapIds, junk \in JunkBytes :
          LET args == [major_opcode |-> major_opcode, window_id |-> Word(32, 1),
                       x_offset |-> 5, y_offset |-> 7, pixmap_id |-> pixmap_id]
          IN  \/ Called("ShapeExtension::mask", args,
                        ShapeMaskBytes(major_opcode, args.window_id, args.x_offset,
                                       args.y_offset, pixmap_id, <<junk, junk>>), None)
              \/ \* buf has less spare capacity than 2: advance_mut panics
                 Panicked("ShapeExtension::mask", args,
                          <<major_opcode, 2>> \o PutU16LE(5) \o <<0, 1>>)
    /\ UNCHANGED <<wire, response_buf, readerPc, cur, chan, oneshots, writerPc, written,
                   answered, asyncSent, frames, consumed, processed, faults, id_generator,
                   ids, handshake>>

NextEncoders ==
    \/ EncCreateWindow
    \/ EncWindowRequest
    \/ EncConfigureWindow
    \/ EncCreateGC
    \/ EncListFonts
    \/ EncQueryExtension
    \/ EncListExtensions
    \/ EncOpenFont
    \/ EncImageText8
    \/ EncShapeQueryVersion
    \/ EncShapeRectangles
    \/ EncShapeMask

SpecEncoders == InitEncoders /\ [][NextEncoders]_vars

(***************************************************************************)
(* SpecPad: the function pad, lines 368..370, called with lengths from a   *)
(* bounded set.                                                            *)
(***************************************************************************)
\* the lengths: the small ones, and some around the 16-bit and 30-bit limits
PadLens == 0..MaxPadLen \cup {65535, 65536, 1073741821, 1073741822}

InitPad ==
    /\ SessionStarts
    /\ faults = <<>>
    /\ id_generator = NoIdGenerator
    /\ ids = <<>>
    /\ handshake = NoHandshake
    /\ encoder = [NoEncoder EXCEPT !.pc = "pad"]

PadCall ==
    /\ encoder.pc = "pad"
    /\ Len(encoder.calls) < MaxPadCalls
    /\ \E len \in PadLens :
          encoder' = [encoder EXCEPT
                        !.calls = Append(@, [encoder |-> "pad", args |-> [len |-> len],
                                             panic |-> FALSE, at |-> 0, len |-> 0,
                                             returned |-> pad(len)])]
    /\ UNCHANGED <<wire, response_buf, readerPc, cur, chan, oneshots, writerPc, written,
                   answered, asyncSent, frames, consumed, processed, faults, id_generator,
                   ids, handshake>>

NextPad == PadCall

SpecPad == InitPad /\ [][NextPad]_vars

(***************************************************************************)
(* SpecEvents: the reader task alone, fed event frames of every kind.      *)
(***************************************************************************)
\* the events decode_event has an arm for (lines 553..618)
DecodableEvents ==
    {EvKeyPress, EvKeyRelease, EvButtonPress, EvButtonRelease, EvEnterNotify,
     EvLeaveNotify, EvMappingNotify, EvExpose}
\* first bytes of the frames sent: the decodable events; members of Events
\* without an arm (MotionNotify, FocusIn 9, MapRequest, SelectionRequest,
\* ClientMessage 33); numbers that are no member (22, 35, and KeyPress with
\* the send-event bit, 130)
EventFirstBytes ==
    DecodableEvents \cup {EvMotionNotify, 9, EvMapRequest, EvSelectionRequest, 33}
    \cup {22, 35, 130}

EventSend ==
    /\ Len(frames) < MaxEventFrames
    /\ \E first \in EventFirstBytes :
          Sent(EventFrame(first, 38, 5), IF EventsFromU8(first) THEN "event" ELSE "unknown",
               0, 0)
    /\ UNCHANGED <<response_buf, readerPc, cur, chan, oneshots, writerPc, written,
                   answered, asyncSent, consumed, processed>>
    /\ UNCHANGED ext

NextEvents ==
    \/ ReaderRead
    \/ ReaderEvent
    \/ ReaderUnknown
    \/ EventSend

SpecEvents == Init /\ [][NextEvents]_vars

(***************************************************************************)
(* Properties.                                                             *)
(***************************************************************************)
IsReplyFrame(f) == f.class = "reply"
\* the reply frames of the inbound stream, in stream order
ReplyFrames == SelectSeq(frames, IsReplyFrame)
\* the bytes sent on oneshot h lie in the stream from PayloadFrom(h) up to oneshots[h].end
PayloadFrom(h) == oneshots[h].end - Len(oneshots[h].bytes)

\* C1: the k-th entry the writer registered is received for the k-th reply frame
\* of the stream (first byte 1), and the bytes sent on its handle are bytes of
\* that frame, which answers that entry's request.
C1_RepliesMatchOldestFirst ==
    \A h \in DOMAIN oneshots :
        oneshots[h].at >= 0 =>
            /\ h <= Len(ReplyFrames)
            /\ oneshots[h].at = ReplyFrames[h].start
            /\ oneshots[h].opcode = ReplyFrames[h].for
            /\ oneshots[h].state = "sent" =>
                   /\ oneshots[h].sends = 1
                   /\ PayloadFrom(h) >= ReplyFrames[h].start
                   /\ oneshots[h].end <= ReplyFrames[h].start + ReplyFrames[h].len

\* two replies delivered, with an error or event frame in the stream before the second
C1_Witness ==
    /\ Len(oneshots) >= 2
    /\ oneshots[1].state = "sent"
    /\ oneshots[2].state = "sent"
    /\ \E i \in DOMAIN frames : ~IsReplyFrame(frames[i]) /\ frames[i].start < oneshots[2].at

\* the reply-expecting requests among the first i written
ReplyRequestsIn(i) == Cardinality({j \in 1..i : AwaitsReply(written[j])})

\* C2: every reply-expecting request on the socket has its entry registered
\* already (the entry of the same rank, with the request's opcode), and the
\* reader never stands at rx.recv() for a reply whose entry does not exist.
C2_RegisteredBeforeWritten ==
    /\ \A i \in DOMAIN written :
           AwaitsReply(written[i]) =>
               /\ ReplyRequestsIn(i) <= Len(oneshots)
               /\ oneshots[ReplyRequestsIn(i)].opcode = written[i]
    /\ readerPc = "recv" => chan # <<>>

\* the reader has classified the reply to the second reply-expecting request
C2_Witness ==
    /\ readerPc = "recv"
    /\ Len(ReplyFrames) = 2
    /\ ReplyRequestsIn(Len(written)) = 2

\* the frame of the stream that starts at byte pos; none when pos is inside a frame
StartsFrame(pos) == \E i \in DOMAIN frames : frames[i].start = pos
FrameAt(pos) == frames[CHOOSE i \in DOMAIN frames : frames[i].start = pos]
\* entry h was received for a reply frame and the reader has come to the end
\* of the entry's branch
BranchLeft(h) == oneshots[h].at >= 0 /\ oneshots[h].end >= 0

\* C3: every entry received for a reply frame, whatever its opcode, has its
\* oneshot sent exactly once when the reader leaves the branch, and the bytes
\* sent are bytes of the stream from that frame's start on.
C3_ConsumedEntryFulfilledOnce ==
    \A h \in DOMAIN oneshots :
        BranchLeft(h) =>
            /\ oneshots[h].sends = 1
            /\ oneshots[h].state = "sent"
            /\ PayloadFrom(h) > oneshots[h].at

\* the place in processed of the reply frame entry h was received for
ClassifiedAs(h) == CHOOSE p \in DOMAIN processed : processed[p].at = oneshots[h].at

\* C4 (as stated): an entry is only ever paired with a reply frame that was
\* classified after the entry was registered; a reply frame classified while
\* the channel is empty is never paired with an entry registered later.
C4_NeverPairsWithLaterEntry ==
    \A h \in DOMAIN oneshots :
        oneshots[h].at >= 0 => oneshots[h].seen < ClassifiedAs(h)

\* C4 (amended): with a reply frame classified and the channel empty, the
\* reader stays at rx.recv(): it does not end, takes no byte and classifies
\* nothing; it leaves rx.recv() only with the oldest entry of the channel,
\* which it pairs with that frame.
C4_WaitsForEntry ==
    [][/\ (readerPc = "recv" /\ chan = <<>>) =>
              /\ readerPc' = "recv"
              /\ consumed' = consumed
              /\ response_buf' = response_buf
              /\ processed' = processed
       /\ (readerPc = "recv" /\ readerPc' # "recv") =>
              /\ chan # <<>>
              /\ oneshots'[Head(chan).tx].at = processed[Len(processed)].at
      ]_vars

\* an entry registered after its reply frame was classified has been fulfilled
C4_Witness ==
    \E h \in DOMAIN oneshots :
        /\ oneshots[h].at >= 0
        /\ oneshots[h].seen >= ClassifiedAs(h)
        /\ oneshots[h].state = "sent"

C6_ReplyRemovesDeclaredLength ==
    \A h \in DOMAIN oneshots :
        (/\ oneshots[h].end >= 0
         /\ StartsFrame(oneshots[h].at)
         /\ IsReplyFrame(FrameAt(oneshots[h].at))
         /\ \/ FrameAt(oneshots[h].at).for = oneshots[h].opcode
            \/ oneshots[h].opcode \in {OpenFont, ImageText8}) =>
            oneshots[h].end - oneshots[h].at = 32 + 4 * FrameAt(oneshots[h].at).length

\* the end of the i-th frame of the stream
FrameEnd(i) == IF i = 0 THEN 0 ELSE frames[i].start + frames[i].len

\* C7: the i-th frame the reader classifies is the i-th frame of the stream, at
\* its start and with its first byte, and whenever the reader is back at the
\* head of its loop it has taken exactly the frames it classified.
C7_FramesInArrivalOrder ==
    /\ \A i \in DOMAIN processed :
           /\ i <= Len(frames)
           /\ processed[i].at = frames[i].start
           /\ processed[i].first = frames[i].first
    /\ readerPc = "frames" => consumed = FrameEnd(Len(processed))

\* three frames classified, a reply among them and an error or event after it
C7_Witness ==
    /\ Len(processed) >= 3
    /\ \E i, j \in DOMAIN processed :
           i < j /\ processed[i].class = "reply" /\ processed[j].class # "reply"

\* the class the first byte stands for
ClassOfFirstByte(first_byte) ==
    IF first_byte = 0 THEN "error"
    ELSE IF first_byte = 1 THEN "reply"
    ELSE IF first_byte \in 2..34 THEN "event"
    ELSE "unknown"

\* C8: every frame is classified by its first byte: 0 error, 1 reply,
\* 2..34 event, anything else unknown.
C8_ClassifiedByFirstByte ==
    \A i \in DOMAIN processed :
        processed[i].at = frames[i].start =>
            processed[i].class = ClassOfFirstByte(frames[i].first)

\* C9: an Error frame with a code in 1..17 is decoded without ending the
\* reader task, and the 32 bytes of the frame are taken.
C9_DefinedErrorsDoNotAbort ==
    \A i \in DOMAIN processed :
        (/\ processed[i].at = frames[i].start
         /\ processed[i].class = "error"
         /\ processed[i].code \in 1..17) =>
            /\ ~processed[i].panic
            /\ processed[i].used = 32

\* C10: a decoded Error frame with code 14 or 3 has a bad resource id, the
\* number the peer put in the 4 bytes after the sequence number; with code 1,
\* 8 or 16 it has none; either way the frame takes 32 bytes.
C10_ErrorFrameDecode ==
    \A i \in DOMAIN processed :
        (processed[i].class = "error" /\ processed[i].at = frames[i].start) =>
            /\ processed[i].code \in {ErrIDChoice, ErrWindow} =>
                   /\ ~processed[i].panic
                   /\ processed[i].has_bad_resource_id
                   /\ processed[i].bad_resource_id = frames[i].value
                   /\ processed[i].used = 32
            /\ processed[i].code \in {ErrRequest, ErrMatch, ErrLength} =>
                   /\ ~processed[i].panic
                   /\ ~processed[i].has_bad_resource_id
                   /\ processed[i].used = 32

\* an IDChoice error and a Match error decoded one after the other
C10_Witness ==
    \E i, j \in DOMAIN processed :
        /\ processed[i].class = "error" /\ processed[i].code = ErrIDChoice
        /\ processed[i].bad_resource_id = BadResourceId
        /\ processed[j].class = "error" /\ processed[j].code = ErrMatch
        /\ consumed = 64

\* C11: once a read of the reader task has returned Err the reader task has
\* ended and has classified no further frame; once a write of main has
\* returned Err main has returned and no further request was written.
C11_IoFailureStopsTheTask ==
    \A i \in DOMAIN faults :
        /\ faults[i].task = "reader" =>
               /\ ReaderGone
               /\ Len(processed) = faults[i].processed
        /\ faults[i].task = "writer" =>
               /\ writerPc.ph = "failed"
               /\ Len(written) = faults[i].written

\* words as the properties read them
Zero == Word(0, 0)
WLeq(a, b) == ~WLess(b, a)
RECURSIVE LowBit(_)
LowBit(n) == IF n % 2 = 1 THEN 1 ELSE 2 * LowBit(n \div 2)
\* the lowest set bit of a non-zero word
LowestSetBit(w) == IF w.lo # 0 THEN Word(0, LowBit(w.lo)) ELSE Word(LowBit(w.hi), 0)
\* the set bits of a non-zero word are one run: adding the lowest set bit clears them all
OneRun(w) == WAnd(w, WAdd(w, LowestSetBit(w))) = Zero
RECURSIVE WTimes(_, _)
WTimes(k, w) == IF k = 0 THEN Zero ELSE WAdd(w, WTimes(k - 1, w))
\* k * w fits u32
RECURSIVE TimesFits(_, _)
TimesFits(k, w) ==
    IF k = 0 THEN TRUE
    ELSE TimesFits(k - 1, w) /\ ~WAddOverflows(w, WTimes(k - 1, w))
\* the calls of next that returned Some
Returned == {i \in DOMAIN ids : ids[i].result.some}
IdAt(i) == ids[i].result.value
\* the generator was built from a base and a mask as the protocol announces
\* them: the mask one run of bits, not empty, and the base clear of it
Announced ==
    /\ id_generator.built
    /\ id_generator.max # Zero
    /\ OneRun(id_generator.max)
    /\ WAnd(id_generator.base, id_generator.max) = Zero

\* C12 (as stated): for any base and any non-zero mask the ids returned are
\* strictly increasing, pairwise distinct, and id & base = base.
C12_IdsIncreaseForAnyBaseAndMask ==
    (id_generator.built /\ id_generator.max # Zero) =>
        /\ \A i, j \in Returned : i < j => WLess(IdAt(i), IdAt(j))
        /\ \A i \in Returned : WAnd(IdAt(i), id_generator.base) = id_generator.base

\* C12 (amended): for a mask that is one non-empty run of bits and a base
\* clear of it, the ids returned are strictly increasing, pairwise distinct,
\* and id & base = base.
C12_IdsIncrease ==
    Announced =>
        /\ \A i, j \in Returned : i < j => WLess(IdAt(i), IdAt(j))
        /\ \A i, j \in Returned : i # j => IdAt(i) # IdAt(j)
        /\ \A i \in Returned : WAnd(IdAt(i), id_generator.base) = id_generator.base

\* three ids returned from a base other than 0 and a mask whose step is above 1
C12_Witness ==
    /\ Announced
    /\ id_generator.base # Zero
    /\ id_generator.inc # Word(0, 1)
    /\ Cardinality(Returned) >= 3

\* C13: a call of next returns None exactly when self.last equals self.max
\* before it; a call that returns None leaves self.last as it was, and every
\* later call returns None too.
C13_NoneExactlyAtMaxAndForever ==
    id_generator.built =>
        \A i \in DOMAIN ids :
            /\ ~ids[i].result.some <=> ids[i].before = id_generator.max
            /\ ~ids[i].result.some =>
                   /\ ids[i].after = ids[i].before
                   /\ \A j \in DOMAIN ids : j > i => ~ids[j].result.some

\* ids were returned, then None twice
C13_Witness ==
    /\ id_generator.built
    /\ \E i \in DOMAIN ids :
          /\ i >= 3
          /\ ids[i - 1].result.some
          /\ ~ids[i].result.some
          /\ i + 1 \in DOMAIN ids

C15_KthIdIsKTimesIncOrBase ==
    (id_generator.built /\ id_generator.max # Zero) =>
        /\ \A k \in DOMAIN ids :
               (/\ TimesFits(k, LowestSetBit(id_generator.max))
                /\ WLeq(WTimes(k, LowestSetBit(id_generator.max)), id_generator.max)) =>
                   ids[k].result =
                       Some(WOr(WTimes(k, LowestSetBit(id_generator.max)), id_generator.base))
        /\ (id_generator.base = Word(32, 0) /\ id_generator.max = Word(31, 65535)) =>
               /\ id_generator.inc = Word(0, 1)
               /\ 1 \in DOMAIN ids => ids[1].result = Some(Word(32, 1))
               /\ 2 \in DOMAIN ids => ids[2].result = Some(Word(32, 2))

\* base 0x00200000, mask 0x001FFFFF: two ids returned
C15_Witness ==
    /\ id_generator.base = Word(32, 0)
    /\ id_generator.max = Word(31, 65535)
    /\ Len(ids) >= 2
    /\ ids[2].result.some

\* the handshake is under study and has gone past its decode
HsPast == handshake.pc \in {"decoded", "session"}
\* the additional data of the response the server sends
SetupData == SubSeq(SetupBytes(handshake.shape), 9, Len(SetupBytes(handshake.shape)))

\* C16: a response whose status byte is 0 (Failed) or 2 (Authenticate) aborts
\* the session: none of its fields is decoded and no request is written; only
\* status 1 goes on.
C16_OnlySuccessProceeds ==
    (handshake.pc # "idle" /\ handshake.shape.status_code # 1)
        => /\ ~handshake.result.started
           /\ ~HsPast
           /\ written = <<>>

\* C17: a well-formed success response, split into reads in any way (a first
\* read shorter than the 8-byte header included), is accumulated: no split
\* ends the session, and the decode gives what it gives when the response
\* comes in one read.
C17_AnyPartitionDecodes ==
    (handshake.pc # "idle" /\ handshake.shape \in GoodShapes)
        => /\ handshake.pc # "panicked"
           /\ HsPast => handshake.result = DecodeSetup(SetupData)

\* the depths and the visuals a screen sequence declares
RECURSIVE SumLen(_)
SumLen(ss) == IF ss = <<>> THEN 0 ELSE Len(ss[1]) + SumLen(Tail(ss))
DepthsOf(screen_roots) == Flatten(screen_roots)
VisualsOf(shape) ==
    SumLen(Flatten([i \in DOMAIN shape.screen_roots |-> shape.screen_roots[i].allowed_depths]))

\* C18: from a well-formed success response the decoder makes exactly the
\* declared number of formats, of screens, of depths per screen and of
\* visuals per depth, and takes exactly additional_data_len * 4 bytes after
\* the header, which is 32 + vendor + pad + 8 per format + 40 per screen +
\* 8 per depth + 24 per visual; one screen, no formats and no vendor give one
\* Screen and an empty format list.  The responses with such a byte split
\* that the header arrives whole are decoded, never abandoned.
C18_DeclaredCountsAndBytes ==
    (handshake.pc # "idle" /\ handshake.shape \in GoodShapes)
        => LET shape == handshake.shape
               result == handshake.result
           IN  /\ handshake.pc = "panicked" => ~Remain(handshake.response, 1, 8)
               /\ HsPast =>
                    /\ result.formats = shape.formats
                    /\ Len(result.screen_roots) = Len(shape.screen_roots)
                    /\ \A i \in DOMAIN shape.screen_roots :
                          /\ Len(result.screen_roots[i])
                                = Len(shape.screen_roots[i].allowed_depths)
                          /\ \A j \in DOMAIN shape.screen_roots[i].allowed_depths :
                                result.screen_roots[i][j]
                                    = Len(shape.screen_roots[i].allowed_depths[j])
                    /\ result.used = handshake.additional_data_len * 4
                    /\ result.used = 32 + Len(shape.vendor) + pad(Len(shape.vendor))
                                     + 8 * shape.formats + 40 * Len(shape.screen_roots)
                                     + 8 * Len(DepthsOf(result.screen_roots))
                                     + 24 * VisualsOf(shape)
                    /\ shape = PlainShape
                          => Len(result.screen_roots) = 1 /\ result.formats = 0

\* a response with a vendor, formats, screens, depths and visuals is decoded
C18_Witness == handshake.pc = "decoded" /\ handshake.shape = FullShape

\* C19: an enumeration byte outside its range (image byte order, bitmap bit
\* order, save-unders outside 0..1, backing store outside 0..2, visual class
\* outside 0..5) ends the decode in a panic as soon as the body is decoded;
\* the handshake never completes with a value put in its place.
C19_UnknownEnumByteIsFatal ==
    (handshake.pc # "idle" /\ handshake.shape \in BadEnumShapes)
        => /\ ~HsPast
           /\ (handshake.pc # "read"
                 /\ EnoughBuffered(handshake.response, handshake.additional_data_len)
                 /\ Remain(handshake.response, 1, 8))
                => /\ handshake.pc = "panicked"
                   /\ handshake.result.started
                   /\ handshake.result.panic

\* the decode panicked at a visual of class 6, after its screen and depth
C19_Witness ==
    /\ handshake.pc = "panicked"
    /\ handshake.result.started
    /\ handshake.shape.screen_roots # <<>>
    /\ handshake.shape.screen_roots[1].allowed_depths = <<<<6>>>>

\* the finished calls of the encoders C20 names
LengthChecked ==
    {i \in DOMAIN encoder.calls :
        /\ ~encoder.calls[i].panic
        /\ encoder.calls[i].encoder # "query_extension"}

\* C20: every request encoder writes a 2-byte request length that, times 4,
\* is the number of bytes the call appended to the buffer, header included.
C20_LengthFieldCountsTheBytes ==
    \A i \in LengthChecked :
        GetU16LE(encoder.buf, encoder.calls[i].at + 3) * 4 = encoder.calls[i].len

\* the bytes call i appended
BytesOf(i) ==
    SubSeq(encoder.buf, encoder.calls[i].at + 1, encoder.calls[i].at + encoder.calls[i].len)
\* the finished calls of the encoders that write a bitmask and a value list
MaskedCalls ==
    {i \in DOMAIN encoder.calls :
        /\ ~encoder.calls[i].panic
        /\ encoder.calls[i].encoder
              \in {"create_window_request", "create_gc", "configure_window"}}
\* the bitmask a call emitted, and where its value list starts
MaskOf(i) ==
    IF encoder.calls[i].encoder = "create_window_request" THEN GetU32LE(BytesOf(i), 29)
    ELSE IF encoder.calls[i].encoder = "create_gc" THEN GetU32LE(BytesOf(i), 13)
    ELSE GetU16LE(BytesOf(i), 9)
ValuesStart(i) ==
    IF encoder.calls[i].encoder = "create_window_request" THEN 33
    ELSE IF encoder.calls[i].encoder = "create_gc" THEN 17
    ELSE 13
\* the value the call has for the attribute of bit position b: CreateWindow
\* background-pixel (1) and event-mask (11); CreateGC foreground (2),
\* background (3) and font (14); ConfigureWindow x (0) and y (1)
ValueFor(i, b) ==
    LET call == encoder.calls[i]
    IN  IF call.encoder = "create_window_request"
        THEN IF b = 1 THEN PutU32LE(call.args.screen.white_pixel)
             ELSE PutU32LE(1 + 2 + 4 + 8 + 16 + 32 + 32768)
        ELSE IF call.encoder = "create_gc"
        THEN IF b = 2 THEN PutWordLE(Word(65280, 65280))
             ELSE IF b = 3 THEN PutWordLE(Word(65280, 0))
             ELSE PutWordLE(call.args.font_id)
        ELSE IF b = 0 THEN PutI16LE(200 + call.args.x) \o <<0, 0>>
             ELSE PutI16LE(200 + call.args.y) \o <<0, 0>>
BitSet(mask, b) == (mask \div 2 ^ b) % 2 = 1
\* the values of the bits set in mask, from bit position b upwards
RECURSIVE InBitOrder(_, _, _)
InBitOrder(i, mask, b) ==
    IF b > 30 THEN <<>>
    ELSE (IF BitSet(mask, b) THEN ValueFor(i, b) ELSE <<>>) \o InBitOrder(i, mask, b + 1)

\* C21: in create_window_request, create_gc and configure_window the value
\* list that follows the bitmask holds one value per bit set in the bitmask,
\* in ascending order of the bits' positions.
C21_ValuesInBitOrder ==
    \A i \in MaskedCalls :
        /\ encoder.calls[i].len - ValuesStart(i) + 1
              = 4 * Cardinality({b \in 0..30 : BitSet(MaskOf(i), b)})
        /\ SubSeq(BytesOf(i), ValuesStart(i), encoder.calls[i].len)
              = InBitOrder(i, MaskOf(i), 0)

\* a create_gc and a configure_window call have finished
C21_Witness ==
    \E i, j \in MaskedCalls :
        /\ encoder.calls[i].encoder = "create_gc"
        /\ encoder.calls[j].encoder = "configure_window"

\* the finished calls of an encoder
CallsOf(name) ==
    {i \in DOMAIN encoder.calls : ~encoder.calls[i].panic /\ encoder.calls[i].encoder = name}
\* call i appended head bytes, then a string of n bytes, then its padding,
\* and the next call's bytes start right after them
PaddedString(i, head, n) ==
    /\ encoder.calls[i].len = head + n + pad(n)
    /\ encoder.calls[i].len % 4 = 0
    /\ i < Len(encoder.calls)
          => encoder.calls[i + 1].at = encoder.calls[i].at + head + n + pad(n)

\* C22: requests of variable length end on a 4-byte boundary: query_extension
\* appends 8 + n + pad(n) bytes for a name of n bytes, with the length field
\* 2 + (n + pad(n)) / 4 and the name-length field n; list_fonts, open_font
\* and image_text_8 append the pad bytes of their string before a following
\* request is written.
C22_VariableRequestsArePadded ==
    /\ \A i \in CallsOf("query_extension") :
          LET n == Len(encoder.calls[i].args.extension_name)
          IN  /\ PaddedString(i, 8, n)
              /\ GetU16LE(BytesOf(i), 3) = 2 + (n + pad(n)) \div 4
              /\ GetU16LE(BytesOf(i), 5) = n
              /\ SubSeq(BytesOf(i), 9, 8 + n) = encoder.calls[i].args.extension_name
    /\ \A i \in CallsOf("list_fonts") : PaddedString(i, 8, GetU16LE(BytesOf(i), 7))
    /\ \A i \in CallsOf("open_font") : PaddedString(i, 12, GetU16LE(BytesOf(i), 9))
    /\ \A i \in CallsOf("image_text_8") : PaddedString(i, 16, BytesOf(i)[2])

\* query_extension was called with a name that needs padding, and another
\* request was encoded after it
C22_Witness ==
    \E i \in CallsOf("query_extension") :
        /\ pad(Len(encoder.calls[i].args.extension_name)) > 0
        /\ i < Len(encoder.calls)

\* get_u32_le as a word
GetWordLE(s, i) == Word(GetU16LE(s, i + 2), GetU16LE(s, i))
\* the calls, finished or not, of the encoders that take an id
IdCalls ==
    {i \in DOMAIN encoder.calls :
        encoder.calls[i].encoder \in {"create_window_request", "create_gc", "open_font"}}
\* the call of next() that call i made: the calls take their ids in turn
TakenBy(i) == ids[Cardinality({j \in IdCalls : j <= i})]

\* C23: whatever the allocator's state, the parent and the root visual, the
\* bytes create_window_request appended decode to opcode 1, a length of a
\* quarter of the bytes written, a wid that is the id taken from the
\* allocator and the id returned, the given parent and the given visual.
C23_CreateWindowRoundTrip ==
    \A i \in CallsOf("create_window_request") :
        LET call == encoder.calls[i]
        IN  /\ BytesOf(i)[1] = 1
            /\ GetU16LE(BytesOf(i), 3) * 4 = call.len
            /\ call.returned # None
            /\ TakenBy(i).result = call.returned
            /\ GetWordLE(BytesOf(i), 5) = call.returned.value
            /\ GetU32LE(BytesOf(i), 9) = call.args.screen.window
            /\ GetU32LE(BytesOf(i), 25) = call.args.screen.root_visual

\* create_window_request finished after another call had taken an id
C23_Witness ==
    \E i \in CallsOf("create_window_request") :
        /\ i > 1
        /\ TakenBy(i).before # Word(0, 0)

\* C24: create_window_request, create_gc and open_font take exactly one id
\* from the allocator per call and embed that id in the request; with the
\* allocator exhausted the call panics: it returns no id and leaves no
\* request with a stale or zero id.
C24_OneIdPerCallOrPanic ==
    /\ Len(ids) = Cardinality(IdCalls)
    /\ \A k \in 1..(Len(ids) - 1) : ids[k + 1].before = ids[k].after
    /\ ids # <<>> => id_generator.last = ids[Len(ids)].after
    /\ \A i \in IdCalls :
          LET call == encoder.calls[i]
          IN  IF TakenBy(i).before = id_generator.max
              THEN /\ TakenBy(i).result = None
                   /\ call.panic
                   /\ call.returned = None
                   /\ call.len <= 4
                   /\ encoder.pc = "panicked"
              ELSE /\ ~call.panic
                   /\ TakenBy(i).after = WAdd(TakenBy(i).before, id_generator.inc)
                   /\ call.returned = TakenBy(i).result
                   /\ call.returned # None
                   /\ GetWordLE(BytesOf(i), 5) = call.returned.value
                   /\ \A j \in IdCalls : j < i => encoder.calls[j].returned # call.returned

\* an encoder was called with the allocator exhausted, after a call that
\* took the last id
C24_Witness ==
    \E i, j \in IdCalls :
        /\ i < j
        /\ ~encoder.calls[i].panic
        /\ encoder.calls[j].panic

\* C25: pad(n) is between 0 and 3 and makes n + pad(n) a multiple of 4.
C25_PadFillsToFour ==
    \A i \in CallsOf("pad") :
        LET n == encoder.calls[i].args.len
            p == encoder.calls[i].returned
        IN  /\ (n + p) % 4 = 0
            /\ 0 <= p
            /\ p < 4

\* pad was called with a non-zero multiple of 4 and returned 0
C25_Witness ==
    \E i \in CallsOf("pad") :
        /\ encoder.calls[i].args.len > 0
        /\ encoder.calls[i].args.len % 4 = 0
        /\ encoder.calls[i].returned = 0

\* C26: an event frame with a decode path (KeyPress, KeyRelease,
\* ButtonPress, ButtonRelease, EnterNotify, LeaveNotify, MappingNotify,
\* Expose) is decoded only with 32 bytes or more in the buffer and takes
\* exactly 32 of them, its first byte included, and the reader goes on; any
\* other first byte above 1 ends the reader task in a panic.
C26_EventsTake32OrPanic ==
    [][processed' # processed =>
          LET first == response_buf[1]
              p == processed'[Len(processed')]
          IN  /\ Len(response_buf) >= 32
              /\ p.first = first
              /\ first \in DecodableEvents =>
                    /\ p.class = "event"
                    /\ ~p.panic
                    /\ p.used = 32
                    /\ response_buf' = Drop(response_buf, 32)
                    /\ consumed' = consumed + 32
                    /\ readerPc' = "frames"
              /\ (first > 1 /\ first \notin DecodableEvents) =>
                    /\ p.panic
                    /\ readerPc' = "panicked"]_vars

\* an EnterNotify frame was decoded
C26_Witness ==
    \E i \in DOMAIN processed :
        /\ processed[i].first = EvEnterNotify
        /\ ~processed[i].panic
        /\ processed[i].used = 32

\* the server's last frame is the reply to GetWindowAttributes, the reader
\* has taken every frame before it and is alive, and the entry is pending
LastFrameIsGwaReply ==
    /\ frames # <<>>
    /\ frames[Len(frames)].class = "reply"
    /\ frames[Len(frames)].for = GetWindowAttributes
    /\ frames[Len(frames)].len = 44
GwaReplyIsLast ==
    /\ LastFrameIsGwaReply
    /\ consumed >= frames[Len(frames)].start
    /\ ~ReaderGone
    /\ \E h \in DOMAIN oneshots :
          oneshots[h].opcode = GetWindowAttributes /\ oneshots[h].state = "open"
\* the GetWindowAttributes entry was fulfilled and main has gone past its await
GwaDelivered ==
    /\ \E h \in DOMAIN oneshots :
          oneshots[h].opcode = GetWindowAttributes /\ oneshots[h].state = "sent"
    /\ MainProgram[writerPc.i] # GetWindowAttributes

\* C27: with a GetWindowAttributes entry pending and the whole 44-byte reply
\* sent, the reader fulfils the entry and main resumes, unless the server
\* sends something more: the delivery needs no byte of a later frame.
C27_GwaReplyIsDelivered ==
    GwaReplyIsLast ~> (GwaDelivered \/ ~LastFrameIsGwaReply)

\* the entries registered and neither fulfilled nor dropped
Unfulfilled == {h \in DOMAIN oneshots : oneshots[h].state = "open"}

\* C28: main awaits the completion of a reply-expecting request before it
\* encodes or writes the next one: at most one entry is registered and
\* unfulfilled, it is the entry of the request main stands at, the channel
\* holds at most that entry, and the server owes at most one reply.
C28_OneOutstandingRequest ==
    /\ Cardinality(Unfulfilled) <= 1
    /\ Len(chan) <= 1
    /\ \A h \in Unfulfilled :
          /\ h = Len(oneshots)
          /\ AwaitsReply(MainProgram[writerPc.i])
          /\ oneshots[h].opcode = MainProgram[writerPc.i]
          /\ Len(written) <= writerPc.i
          /\ writerPc.ph \in {"write", "await"}
    /\ Len(SelectSeq(written, AwaitsReply)) <= answered + 1

\* a request is written and its entry unfulfilled while main awaits it
C28_Witness ==
    /\ Unfulfilled # {}
    /\ writerPc.ph = "await"
    /\ written[Len(written)] = ListFonts

\* C29: processing an Error frame or an Event frame receives nothing from
\* the channel and fulfils no completion handle: the channel and every
\* entry, pending or not, are as they were before the frame.
C29_ErrorsAndEventsLeaveEntriesAlone ==
    [][(/\ processed' # processed
        /\ processed'[Len(processed')].class \in {"error", "event"})
          => /\ chan' = chan
             /\ oneshots' = oneshots
             /\ cur' = cur]_vars


\* w is a multiple of the power of two p
MultipleOf(w, p) == WAnd(w, WAdd(p, Word(65535, 65535))) = Zero

\* C30: for any non-zero mask, in every state of the generator self.last is a
\* multiple of the mask's lowest set bit and at most self.max; !mask + 1 in
\* new does not overflow, and neither does self.last += self.inc in next: the
\* generator is built, no call of next has panicked, and the sum of the next
\* call that adds fits u32.
C30_LastSteppedWithinMax ==
    id_generator.max # Zero =>
        /\ ~IncOverflows(id_generator.max)
        /\ id_generator.built
        /\ id_generator.inc = LowestSetBit(id_generator.max)
        /\ MultipleOf(id_generator.last, LowestSetBit(id_generator.max))
        /\ WLeq(id_generator.last, id_generator.max)
        /\ ~Exhausted(id_generator) => ~NextLastOverflows(id_generator)
        /\ \A i \in DOMAIN ids :
              /\ MultipleOf(ids[i].after, LowestSetBit(id_generator.max))
              /\ WLeq(ids[i].after, id_generator.max)

\* the mask 0xC0000000, whose step is 0x40000000: three ids were returned, the
\* last step ended at self.max, and a further call returned None
C30_Witness ==
    /\ id_generator.built
    /\ id_generator.max = Word(49152, 0)
    /\ id_generator.last = id_generator.max
    /\ Cardinality(Returned) = 3
    /\ \E i \in DOMAIN ids : ~ids[i].result.some

====
